---------------------------- MODULE Spec2Model ----------------------------
(***************************************************************************)
(* A model of the Sankey layout pipeline of juntakei/sankey:               *)
(*   sankey_multi.py     _get_node_layer, split_long_links                 *)
(*   sankey_pipeline.py  infer_layers, compute_node_values, group_by_layer, *)
(*                       barycenter_ordering, compute_positions,           *)
(*                       _compute_link_thicknesses, _stack_links_by_node,  *)
(*                       render_svg, build_internal_graph                  *)
(*                                                                         *)
(* Python values are encoded as follows.                                   *)
(*   - a dict is a function from its keys (strings) to its values; a key   *)
(*     the dict does not have is not in the function's DOMAIN;             *)
(*   - a list is a sequence; list indexes are 0-based in the source and    *)
(*     1-based here (enumerate's index li is i - 1);                       *)
(*   - a value whose type the code tests (a node's 'segment', the          *)
(*     'segments' argument, an Optional[int]) is tagged: [int |-> 3],      *)
(*     [str |-> "mid"], [list |-> <<...>>], and None is [none |-> TRUE];   *)
(*   - node ids, link values and the entries of the returned maps are      *)
(*     plain strings and integers;                                         *)
(*   - a dict whose iteration order the code depends on (the layer         *)
(*     grouping, the ordering) is the sequence of its items in insertion   *)
(*     order, each item a record [key, val];                               *)
(*   - a float of the layout stages is the exact rational it stands for,   *)
(*     a record [n, d] in lowest terms with d > 0: rounding is left out;   *)
(*   - an exception that leaves a function is the record [raised |-> name] *)
(*     in place of the function's result;                                  *)
(*   - where it matters whether two names hold the same object (GraphSpec) *)
(*     the dicts and lists are kept in 'heap' under their addresses.       *)
(***************************************************************************)
EXTENDS Integers, Sequences, FiniteSets, TLC

VARIABLES
    pc,         \* "input" before the call, then the name of the function called
    nodes,      \* argument: the node list
    links,      \* argument: the link list
    segments,   \* argument: the segment-name list, or None
    new_nodes,  \* split_long_links: first component of the result
    new_links,  \* split_long_links: second component of the result
    layer_map,  \* infer_layers: the result
    vals,       \* compute_node_values: the result
    layers,     \* the layer grouping (result of group_by_layer)
    iterations, \* barycenter_ordering: argument
    order,      \* barycenter_ordering: the local 'order', returned at the end
    calls,      \* barycenter_ordering: the number of barycenter() calls made so far
    positions,  \* compute_positions: first component of the result
    sizes,      \* compute_positions: second component of the result
    factor,     \* _compute_link_thicknesses: argument (link_width_factor)
    center_stacks,  \* _stack_links_by_node: argument
    thickness_map,  \* _compute_link_thicknesses: the result
    link_pos_map,   \* _stack_links_by_node: the result
    svg,        \* render_svg: what is drawn for each link, in link order
    heap,       \* the dict and list objects: [dicts, lists], indexed by address
    nodes_copy, \* build_internal_graph: the address of the list 'nodes_copy'
    final_layer_map,  \* build_internal_graph: third component of the result
    resplit_nodes,    \* split_long_links applied to its own result: the node list
    resplit_links     \* split_long_links applied to its own result: the link list

\* The variables of the layout and rendering stages.
layout_vars == <<layers, iterations, order, calls, positions, sizes, factor,
                 center_stacks, thickness_map, link_pos_map, svg>>

\* The variables of build_internal_graph and of the repeated split.
graph_vars == <<heap, nodes_copy, final_layer_map, resplit_nodes, resplit_links>>

vars == <<pc, nodes, links, segments, new_nodes, new_links, layer_map, vals,
          layers, iterations, order, calls, positions, sizes, factor, center_stacks,
          thickness_map, link_pos_map, svg, heap, nodes_copy, final_layer_map,
          resplit_nodes, resplit_links>>

-----------------------------------------------------------------------------
(* Bounds of the inputs. *)

MaxLayer == 3       \* explicit integer segments are 0..MaxLayer
MaxLinks == 2       \* the link list has at most MaxLinks links
MaxValue == 2       \* declared node values and link values are at most MaxValue
MaxIterations == 2  \* barycenter_ordering makes at most MaxIterations iterations

-----------------------------------------------------------------------------
(* Python values. *)

None == [none |-> TRUE]

PyInt(k) == [int |-> k]

PyStr(s) == [str |-> s]

PyList(s) == [list |-> s]

IsInt(v) == "int" \in DOMAIN v

IsStr(v) == "str" \in DOMAIN v

\* d.get(k, default)
Get(d, k, default) == IF k \in DOMAIN d THEN d[k] ELSE default

abs(x) == IF x < 0 THEN -x ELSE x

\* The dict comprehension {n['id']: n for n in nodes}: a later node replaces an
\* earlier one of the same id.
NodeMap(ns) ==
    [id \in {ns[i]["id"] : i \in DOMAIN ns} |->
        ns[CHOOSE i \in DOMAIN ns :
              /\ ns[i]["id"] = id
              /\ \A j \in DOMAIN ns : ns[j]["id"] = id => j <= i]]

-----------------------------------------------------------------------------
(* sankey_multi.py *)

\* list.index(x) - 1-based here; the caller subtracts 1. Defined only when x occurs.
ListIndex(s, x) == CHOOSE i \in DOMAIN s : s[i] = x /\ \A j \in DOMAIN s : s[j] = x => i <= j

\* _get_node_layer(node, segments): the layer as PyInt, or None.
_get_node_layer(node, segs) ==
    LET seg == Get(node, "segment", None) IN
    IF seg = None THEN None
    ELSE IF IsInt(seg) THEN seg
    ELSE IF IsStr(seg) THEN
        IF segs = None THEN None
        ELSE IF \E i \in DOMAIN segs.list : segs.list[i] = seg.str
             THEN PyInt(ListIndex(segs.list, seg.str) - 1)
             ELSE None
    ELSE None

\* The loop "for n in nodes: layer = _get_node_layer(n, segments); if layer is not
\* None: layer_map[n['id']] = layer": only nodes with a known layer get an entry.
SplitLayerMap(ns, segs) ==
    LET known == {i \in DOMAIN ns : _get_node_layer(ns[i], segs) # None} IN
    [id \in {ns[i]["id"] : i \in known} |->
        _get_node_layer(ns[CHOOSE i \in known :
                              /\ ns[i]["id"] = id
                              /\ \A j \in known : ns[j]["id"] = id => j <= i], segs).int]

\* Variant of DummyId: the counter is left out of the id.
DummyId_NoCounter(src_layer, tgt_layer, n) ==
    "__dummy_l" \o ToString(src_layer) \o "_" \o ToString(tgt_layer)

\* f"__dummy_l{src_layer}_{tgt_layer}_{next(dummy_counter)}"
DummyId(src_layer, tgt_layer, n) ==
    "__dummy_l" \o ToString(src_layer) \o "_" \o ToString(tgt_layer) \o "_" \o ToString(n)

\* Variant of DummyNode: the node is placed one layer too far.
DummyNode_NextLayer(did, layer, li) ==
    [id |-> did, label |-> None, segment |-> PyInt(layer + 1), dummy |-> TRUE,
     orig_link_index |-> li]

\* The dummy node dict built for one intermediate layer.
DummyNode(did, layer, li) ==
    [id |-> did, label |-> None, segment |-> PyInt(layer), dummy |-> TRUE,
     orig_link_index |-> li]

\* Variant of ChainLink: the metadata of the original link is not carried over.
ChainLink_NoMeta(link, s, t, val) == [source |-> s, target |-> t, value |-> val]

\* {"source": s, "target": t, "value": val, **{k: v for k, v in link.items()
\*   if k not in ('source', 'target', 'value')}}
ChainLink(link, s, t, val) ==
    [k \in DOMAIN link \cup {"source", "target", "value"} |->
        IF k = "source" THEN s
        ELSE IF k = "target" THEN t
        ELSE IF k = "value" THEN val
        ELSE link[k]]

\* Variant of ChainLoop: the range stops one layer early,
\* range(src_layer + 1, tgt_layer - 1).
RECURSIVE ChainLoop_OneShort(_, _, _, _, _, _, _, _)
ChainLoop_OneShort(st, link, li, val, src_layer, tgt_layer, layer, prev) ==
    IF layer < tgt_layer - 1
    THEN LET did == DummyId(src_layer, tgt_layer, st.counter) IN
         ChainLoop_OneShort(
             [new_nodes |-> Append(st.new_nodes, DummyNode(did, layer, li)),
              new_links |-> Append(st.new_links, ChainLink(link, prev, did, val)),
              counter   |-> st.counter + 1],
             link, li, val, src_layer, tgt_layer, layer + 1, did)
    ELSE [st EXCEPT !.new_links = Append(@, ChainLink(link, prev, link["target"], val))]

\* The inner loop "for layer in range(src_layer + 1, tgt_layer)" followed by the
\* final connector. st is [new_nodes, new_links, counter]; counter is the value
\* next(dummy_counter) returns next.
RECURSIVE ChainLoop(_, _, _, _, _, _, _, _)
ChainLoop(st, link, li, val, src_layer, tgt_layer, layer, prev) ==
    IF layer < tgt_layer
    THEN LET did == DummyId(src_layer, tgt_layer, st.counter) IN
         ChainLoop([new_nodes |-> Append(st.new_nodes, DummyNode(did, layer, li)),
                    new_links |-> Append(st.new_links, ChainLink(link, prev, did, val)),
                    counter   |-> st.counter + 1],
                   link, li, val, src_layer, tgt_layer, layer + 1, did)
    ELSE [st EXCEPT !.new_links = Append(@, ChainLink(link, prev, link["target"], val))]

\* Variant of PreserveMissing: the link is skipped instead of kept.
PreserveMissing_Skip(st, link) == st

\* Lines 53-56: an endpoint is not in node_map; new_links.append(dict(link)).
PreserveMissing(st, link) == [st EXCEPT !.new_links = Append(@, link)]

\* Lines 61-63: an endpoint has no known layer; new_links.append(dict(link)).
PreserveUnknown(st, link) == [st EXCEPT !.new_links = Append(@, link)]

\* Line 65: same layer or adjacent layers, in either direction.
Adjacent(src_layer, tgt_layer) ==
    tgt_layer = src_layer \/ abs(tgt_layer - src_layer) = 1

\* Variant of PreserveAdjacent: the link is rebuilt from its three core keys.
PreserveAdjacent_NoMeta(st, link) ==
    [st EXCEPT !.new_links =
        Append(@, [source |-> link["source"], target |-> link["target"],
                   value |-> Get(link, "value", 0)])]

\* Lines 66-68: no splitting required; new_links.append(dict(link)).
PreserveAdjacent(st, link) == [st EXCEPT !.new_links = Append(@, link)]

\* Variant of PreserveReversed: the link is turned left-to-right.
PreserveReversed_Swap(st, link) ==
    [st EXCEPT !.new_links =
        Append(@, [link EXCEPT !["source"] = link["target"], !["target"] = link["source"]])]

\* Lines 72-75: a right-to-left link is preserved; new_links.append(dict(link)).
PreserveReversed(st, link) == [st EXCEPT !.new_links = Append(@, link)]

\* One iteration of "for li, link in enumerate(links)".
SplitLink(st, link, li, node_map, lmap) ==
    LET src == link["source"]
        tgt == link["target"]
        val == Get(link, "value", 0)
    IN  IF src \notin DOMAIN node_map \/ tgt \notin DOMAIN node_map
        THEN PreserveMissing(st, link)
        ELSE IF src \notin DOMAIN lmap \/ tgt \notin DOMAIN lmap
        THEN PreserveUnknown(st, link)
        ELSE LET src_layer == lmap[src]
                 tgt_layer == lmap[tgt]
             IN  IF Adjacent(src_layer, tgt_layer) THEN PreserveAdjacent(st, link)
                 ELSE IF tgt_layer < src_layer THEN PreserveReversed(st, link)
                 ELSE ChainLoop(st, link, li, val, src_layer, tgt_layer,
                                src_layer + 1, src)

\* The outer loop over links[i..].
RECURSIVE SplitLoop(_, _, _, _, _)
SplitLoop(st, ls, i, node_map, lmap) ==
    IF i > Len(ls) THEN st
    ELSE SplitLoop(SplitLink(st, ls[i], i - 1, node_map, lmap), ls, i + 1, node_map, lmap)

\* split_long_links(nodes, links, segments): [new_nodes, new_links, counter].
split_long_links(ns, ls, segs) ==
    SplitLoop([new_nodes |-> ns, new_links |-> <<>>, counter |-> 1],
              ls, 1, NodeMap(ns), SplitLayerMap(ns, segs))

-----------------------------------------------------------------------------
(* sankey_pipeline.py: infer_layers *)

\* Lines 53-65: the layer a node declares, as PyInt, or None.
ExplicitLayer(node, segs) ==
    LET seg == Get(node, "segment", None) IN
    IF seg = None THEN None
    ELSE IF IsInt(seg) THEN seg
    ELSE IF IsStr(seg) /\ segs # None THEN
        IF \E i \in DOMAIN segs.list : segs.list[i] = seg.str
        THEN PyInt(ListIndex(segs.list, seg.str) - 1)
        ELSE None
    ELSE None

\* Lines 52-65: the first pass; a later node of the same id overwrites an earlier one.
FirstPass(ns, segs) ==
    LET nm == NodeMap(ns) IN [id \in DOMAIN nm |-> ExplicitLayer(nm[id], segs)]

\* list(node_map.keys()): the ids in the order of their first occurrence.
RECURSIVE NodeIdList(_, _)
NodeIdList(ns, i) ==
    IF i > Len(ns) THEN <<>>
    ELSE IF \E j \in 1..(i - 1) : ns[j]["id"] = ns[i]["id"]
         THEN NodeIdList(ns, i + 1)
         ELSE <<ns[i]["id"]>> \o NodeIdList(ns, i + 1)

\* Lines 74-80, adj: for each id, the targets of its links between known nodes, in
\* link order (an id without such a link has the empty list, as in a defaultdict).
RECURSIVE AdjOf(_, _, _, _)
AdjOf(ls, ids, u, i) ==
    IF i > Len(ls) THEN <<>>
    ELSE IF ls[i]["source"] = u /\ ls[i]["source"] \in ids /\ ls[i]["target"] \in ids
         THEN <<ls[i]["target"]>> \o AdjOf(ls, ids, u, i + 1)
         ELSE AdjOf(ls, ids, u, i + 1)

\* Lines 74-80, indeg: the number of links between known nodes that enter id.
InDegree(ls, ids, v) ==
    Cardinality({i \in DOMAIN ls :
                    ls[i]["target"] = v /\ ls[i]["source"] \in ids /\ ls[i]["target"] \in ids})

\* Variant of SeedLoop: a queued node gets layer 0 even when it has a layer.
RECURSIVE SeedLoop_ZeroAlways(_, _, _)
SeedLoop_ZeroAlways(st, nodes_ids, i) ==
    IF i > Len(nodes_ids) THEN st
    ELSE LET nid == nodes_ids[i] IN
         IF st.indeg[nid] = 0
         THEN SeedLoop_ZeroAlways([st EXCEPT !.q = Append(@, nid),
                                             !.layer_map[nid] = PyInt(0)],
                                  nodes_ids, i + 1)
         ELSE SeedLoop_ZeroAlways(st, nodes_ids, i + 1)

\* Lines 83-87: every node of in-degree 0 is queued, with layer 0 unless it has one.
RECURSIVE SeedLoop(_, _, _)
SeedLoop(st, nodes_ids, i) ==
    IF i > Len(nodes_ids) THEN st
    ELSE LET nid == nodes_ids[i] IN
         IF st.indeg[nid] = 0
         THEN SeedLoop([st EXCEPT !.q = Append(@, nid),
                                  !.layer_map[nid] = IF @ = None THEN PyInt(0) ELSE @],
                       nodes_ids, i + 1)
         ELSE SeedLoop(st, nodes_ids, i + 1)

\* Variant of Relax: the candidate is the predecessor's layer, without the + 1.
Relax_NoIncrement(cur, u_layer) ==
    LET candidate == u_layer IN
    IF cur = None \/ candidate > cur.int THEN PyInt(candidate) ELSE cur

\* Lines 93-96: the layer of v after relaxing the edge from a node of layer u_layer.
Relax(cur, u_layer) ==
    LET candidate == u_layer + 1 IN
    IF cur = None \/ candidate > cur.int THEN PyInt(candidate) ELSE cur

\* Lines 92-99: "for v in adj[u]".
RECURSIVE EdgeLoop(_, _, _, _)
EdgeLoop(st, succs, u_layer, i) ==
    IF i > Len(succs) THEN st
    ELSE LET v == succs[i]
             d == st.indeg[v] - 1
         IN  EdgeLoop([layer_map |-> [st.layer_map EXCEPT ![v] = Relax(@, u_layer)],
                       indeg     |-> [st.indeg EXCEPT ![v] = d],
                       q         |-> IF d = 0 THEN Append(st.q, v) ELSE st.q],
                      succs, u_layer, i + 1)

\* Lines 89-99: "while q".
RECURSIVE QueueLoop(_, _, _)
QueueLoop(st, ls, ids) ==
    IF st.q = <<>> THEN st
    ELSE LET u == Head(st.q)
             u_layer == IF st.layer_map[u] = None THEN 0 ELSE st.layer_map[u].int
         IN  QueueLoop(EdgeLoop([st EXCEPT !.q = Tail(@)], AdjOf(ls, ids, u, 1), u_layer, 1),
                       ls, ids)

\* Variant of DefaultZero: a node still without a layer gets 1.
DefaultZero_One(lm) == [id \in DOMAIN lm |-> IF lm[id] = None THEN 1 ELSE lm[id].int]

\* Lines 101-103: a node still without a layer gets 0.
DefaultZero(lm) == [id \in DOMAIN lm |-> IF lm[id] = None THEN 0 ELSE lm[id].int]

MinOf(S) == CHOOSE x \in S : \A y \in S : x <= y

\* Variant of Normalize: the layers are not shifted.
Normalize_Skip(lm) == lm

\* Lines 105-108: shift so that the minimum is 0.
Normalize(lm) ==
    LET min_layer == IF DOMAIN lm # {} THEN MinOf({lm[id] : id \in DOMAIN lm}) ELSE 0 IN
    IF min_layer # 0 THEN [id \in DOMAIN lm |-> lm[id] - min_layer] ELSE lm

\* Lines 67-68: every node declares a layer; the declared layers are returned.
AllExplicit(lm) == [id \in DOMAIN lm |-> lm[id].int]

\* infer_layers(nodes, links, segments): the map from node id to layer.
infer_layers(ns, ls, segs) ==
    LET first == FirstPass(ns, segs)
        ids == DOMAIN first
    IN  IF \A id \in ids : first[id] # None THEN AllExplicit(first)
        ELSE LET seeded == SeedLoop([layer_map |-> first,
                                     indeg |-> [id \in ids |-> InDegree(ls, ids, id)],
                                     q |-> <<>>],
                                    NodeIdList(ns, 1), 1)
             IN  Normalize(DefaultZero(QueueLoop(seeded, ls, ids).layer_map))

-----------------------------------------------------------------------------
(* sankey_pipeline.py: compute_node_values *)

\* Lines 131-133: in_sum and out_sum after the loop over links[i..]; a defaultdict
\* holds an entry only for an id some link names.
RECURSIVE SumLoop(_, _, _)
SumLoop(st, ls, i) ==
    IF i > Len(ls) THEN st
    ELSE LET s == ls[i]["source"]
             t == ls[i]["target"]
             v == Get(ls[i], "value", 0)
             outs == [id \in DOMAIN st.out_sum \cup {s} |->
                         IF id = s THEN Get(st.out_sum, s, 0) + v ELSE st.out_sum[id]]
             ins == [id \in DOMAIN st.in_sum \cup {t} |->
                        IF id = t THEN Get(st.in_sum, t, 0) + v ELSE st.in_sum[id]]
         IN  SumLoop([in_sum |-> ins, out_sum |-> outs], ls, i + 1)

max3(a, b, c) == IF a >= b /\ a >= c THEN a ELSE IF b >= c THEN b ELSE c

\* Variant of NodeValue: the declared value is ignored.
NodeValue_NoDeclared(sums, n) ==
    max3(Get(sums.in_sum, n["id"], 0), Get(sums.out_sum, n["id"], 0), 0)

\* Line 137: max(in_sum.get(nid, 0.0), out_sum.get(nid, 0.0), n.get('value', 0.0))
NodeValue(sums, n) ==
    max3(Get(sums.in_sum, n["id"], 0), Get(sums.out_sum, n["id"], 0), Get(n, "value", 0))

\* compute_node_values(nodes, links): the map from node id to value; a later node of
\* the same id overwrites an earlier one.
compute_node_values(ns, ls) ==
    LET sums == SumLoop([in_sum |-> <<>>, out_sum |-> <<>>], ls, 1)
        nm == NodeMap(ns)
    IN  [id \in DOMAIN nm |-> NodeValue(sums, nm[id])]

-----------------------------------------------------------------------------
(* Python floats, as exact rationals. *)

RECURSIVE GCD(_, _)
GCD(a, b) == IF b = 0 THEN a ELSE GCD(b, a % b)

\* The quotient n / d (d # 0), in lowest terms with a positive denominator.
Frac(n, d) ==
    LET g == GCD(abs(n), abs(d))
        sgn == IF d < 0 THEN -1 ELSE 1
    IN  [n |-> sgn * (n \div g), d |-> sgn * (d \div g)]

\* float(k), for an integer k.
Float(k) == [n |-> k, d |-> 1]

FAdd(a, b) == Frac(a.n * b.d + b.n * a.d, a.d * b.d)

FSub(a, b) == Frac(a.n * b.d - b.n * a.d, a.d * b.d)

FMul(a, b) == Frac(a.n * b.n, a.d * b.d)

\* a / b, for b # 0 (Python raises ZeroDivisionError for b = 0; the callers test it).
FDiv(a, b) == Frac(a.n * b.d, a.d * b.n)

FLt(a, b) == a.n * b.d < b.n * a.d

FLe(a, b) == a.n * b.d <= b.n * a.d

\* max(a, b)
FMax(a, b) == IF FLt(a, b) THEN b ELSE a

\* The exception that leaves a function.
Raised(name) == [raised |-> name]

IsRaised(r) == "raised" \in DOMAIN r

-----------------------------------------------------------------------------
(* sankey_pipeline.py: group_by_layer *)

\* Lines 144-147: int(lid), lid being layer_map.get(id) or, when that is None, the
\* node's 'segment' (0 when it has none). int() of a segment name raises ValueError;
\* the operator is defined for the other cases only.
LayerKey(n, lm) ==
    IF n["id"] \in DOMAIN lm THEN lm[n["id"]]
    ELSE LET seg == Get(n, "segment", PyInt(0)) IN
         CASE IsInt(seg) -> seg.int

\* Lines 143-147: "for n in nodes: layers[int(lid)].append(n)" over ns[i..]; acc is
\* the items of 'layers' in insertion order.
RECURSIVE GroupLoop(_, _, _, _)
GroupLoop(acc, ns, lm, i) ==
    IF i > Len(ns) THEN acc
    ELSE LET lid == LayerKey(ns[i], lm) IN
         GroupLoop(IF \E j \in DOMAIN acc : acc[j].key = lid
                   THEN [j \in DOMAIN acc |->
                            IF acc[j].key = lid
                            THEN [acc[j] EXCEPT !.val = Append(@, ns[i])]
                            ELSE acc[j]]
                   ELSE Append(acc, [key |-> lid, val |-> <<ns[i]>>]),
                   ns, lm, i + 1)

\* group_by_layer(nodes, layer_map)
group_by_layer(ns, lm) == GroupLoop(<<>>, ns, lm, 1)

-----------------------------------------------------------------------------
(* sankey_pipeline.py: barycenter_ordering *)

\* d[k], for a dict d given as the sequence of its items.
ItemOf(d, k) == d[CHOOSE i \in DOMAIN d : d[i].key = k].val

HasKey(d, k) == \E i \in DOMAIN d : d[i].key = k

\* Lines 152-156: preds[nid], the sources of the links that enter nid, in link order.
Preds(ls, nid) ==
    LET hits == SelectSeq(ls, LAMBDA l : l["target"] = nid) IN
    [i \in DOMAIN hits |-> hits[i]["source"]]

\* Lines 152-156: succs[nid], the targets of the links that leave nid, in link order.
Succs(ls, nid) ==
    LET hits == SelectSeq(ls, LAMBDA l : l["source"] = nid) IN
    [i \in DOMAIN hits |-> hits[i]["target"]]

\* Line 158: order = {layer: [n['id'] for n in nodes] for layer, nodes in layers.items()}
InitialOrder(lys) ==
    [i \in DOMAIN lys |->
        [key |-> lys[i].key,
         val |-> [j \in DOMAIN lys[i].val |-> lys[i].val[j]["id"]]]]

\* Lines 171-176: the index of nb in the first list of 'order' that holds it, as
\* PyInt, or None when no list holds it.
RECURSIVE PosOf(_, _, _)
PosOf(od, nb, i) ==
    IF i > Len(od) THEN None
    ELSE IF \E j \in DOMAIN od[i].val : od[i].val[j] = nb
         THEN PyInt(ListIndex(od[i].val, nb) - 1)
         ELSE PosOf(od, nb, i + 1)

\* Lines 168-176: the sum s of the positions of the neighbours found and their
\* number c.
RECURSIVE NeighborSum(_, _, _)
NeighborSum(od, neighbors, i) ==
    IF i > Len(neighbors) THEN [s |-> 0, c |-> 0]
    ELSE LET rest == NeighborSum(od, neighbors, i + 1)
             pos == PosOf(od, neighbors[i], 1)
         IN  IF pos = None THEN rest ELSE [s |-> rest.s + pos.int, c |-> rest.c + 1]

\* Lines 164-177: weights[nid], a float or None.
Weight(od, neighbors) ==
    IF neighbors = <<>> THEN None
    ELSE LET a == NeighborSum(od, neighbors, 1) IN
         IF a.c # 0 THEN Frac(a.s, a.c) ELSE None

\* Variant of Insert: x is put before the entries of equal weight.
Insert_BeforeEqual(sorted, x) ==
    LET k == Cardinality({i \in DOMAIN sorted : FLt(sorted[i].w, x.w)}) IN
    SubSeq(sorted, 1, k) \o <<x>> \o SubSeq(sorted, k + 1, Len(sorted))

\* One step of the stable sort of line 181: x is put after the entries of 'sorted'
\* whose weight is at most its own.
Insert(sorted, x) ==
    LET k == Cardinality({i \in DOMAIN sorted : FLe(sorted[i].w, x.w)}) IN
    SubSeq(sorted, 1, k) \o <<x>> \o SubSeq(sorted, k + 1, Len(sorted))

\* Line 181: has.sort(key=lambda x: x[1]), ascending and stable.
RECURSIVE SortByWeight(_)
SortByWeight(s) ==
    IF s = <<>> THEN <<>>
    ELSE Insert(SortByWeight(SubSeq(s, 1, Len(s) - 1)), s[Len(s)])

\* Variant of NewOrder: the nodes without a weight are left out.
NewOrder_HasOnly(has, nothas) == [i \in DOMAIN has |-> has[i].nid]

\* Line 182: new_order = [x[0] for x in has] + [x[0] for x in nothas]
NewOrder(has, nothas) ==
    [i \in DOMAIN has |-> has[i].nid] \o [i \in DOMAIN nothas |-> nothas[i].nid]

\* Lines 178-180: with_b, the nodes of the layer with their weights.
WithB(od, layer_idx, upward, ls) ==
    LET ids == ItemOf(od, layer_idx) IN
    [i \in DOMAIN ids |->
        [nid |-> ids[i],
         w   |-> Weight(od, IF upward THEN Preds(ls, ids[i]) ELSE Succs(ls, ids[i]))]]

\* Lines 160-183: barycenter(layer_idx, upward); the value is 'order' after the call.
barycenter(od, layer_idx, upward, ls) ==
    LET with_b == WithB(od, layer_idx, upward, ls)
        has == SelectSeq(with_b, LAMBDA x : x.w # None)
        nothas == SelectSeq(with_b, LAMBDA x : x.w = None)
        new_order == NewOrder(SortByWeight(has), nothas)
    IN  [i \in DOMAIN od |->
            IF od[i].key = layer_idx THEN [od[i] EXCEPT !.val = new_order] ELSE od[i]]

\* sorted(S), for a set of integers.
RECURSIVE Sorted(_)
Sorted(S) ==
    IF S = {} THEN <<>>
    ELSE LET m == CHOOSE x \in S : \A y \in S : x <= y IN <<m>> \o Sorted(S \ {m})

\* Lines 185-190: the barycenter() calls of one iteration, in order: upward over
\* layer_indices[1:], then downward over reversed(layer_indices[:-1]).
Sweeps(od) ==
    LET layer_indices == Sorted({od[i].key : i \in DOMAIN od})
        n == Len(layer_indices)
    IN  [k \in 1..(n - 1) |-> [li |-> layer_indices[k + 1], upward |-> TRUE]]
        \o [k \in 1..(n - 1) |-> [li |-> layer_indices[n - k], upward |-> FALSE]]

-----------------------------------------------------------------------------
(* sankey_pipeline.py: compute_positions *)

\* The default arguments of compute_positions and render_svg, and the literals of
\* compute_positions.
width == 800

height == 600

node_width == 20

node_padding == 8

min_node_h == 6

\* d with d[k] = v (a dict assignment).
Put(d, k, v) == [x \in DOMAIN d \cup {k} |-> IF x = k THEN v ELSE d[x]]

MaxOfSet(S) == CHOOSE x \in S : \A y \in S : x >= y

\* Lines 197-202: layer_xs, the x of each layer.
LayerXs(lys) ==
    LET num_layers == IF lys # <<>> THEN MaxOfSet({lys[i].key : i \in DOMAIN lys}) + 1
                      ELSE 1
        total_width == width - 40
    IN  IF num_layers > 1
        THEN [i \in 0..(num_layers - 1) |->
                 FAdd(Float(20), FMul(Float(i), Frac(total_width, num_layers - 1)))]
        ELSE [i \in {0} |-> Frac(width, 2)]

\* Line 208: ordering.get(li, [n['id'] for n in nodes_in_layer])
OrderedIds(ordering, item) ==
    IF HasKey(ordering, item.key) THEN ItemOf(ordering, item.key)
    ELSE [j \in DOMAIN item.val |-> item.val[j]["id"]]

\* Line 210: sum(vals)
RECURSIVE SumSeq(_, _)
SumSeq(s, i) == IF i > Len(s) THEN 0 ELSE s[i] + SumSeq(s, i + 1)

\* Variant of RawHeight: the minimum height is not enforced.
RawHeight_NoFloor(v, total_val) ==
    FMul(Frac(v, total_val), Frac((height - 40) * 6, 10))

\* Line 213: max(min_node_h, (v / total_val) * (avail_height * 0.6)), for
\* total_val # 0.
RawHeight(v, total_val) ==
    FMax(Float(min_node_h), FMul(Frac(v, total_val), Frac((height - 40) * 6, 10)))

\* Lines 214-219: the loop over zip(ordered_ids, raw_heights) from index i on, y being
\* the running top; st is [positions, sizes].
RECURSIVE PlaceLoop(_, _, _, _, _, _)
PlaceLoop(st, ordered_ids, raw_heights, x, y, i) ==
    IF i > Len(ordered_ids) THEN st
    ELSE LET h == raw_heights[i] IN
         PlaceLoop([positions |-> Put(st.positions, ordered_ids[i],
                                      <<x, FAdd(y, FDiv(h, Float(2)))>>),
                    sizes     |-> Put(st.sizes, ordered_ids[i], <<Float(node_width), h>>)],
                   ordered_ids, raw_heights, x, FAdd(FAdd(y, h), Float(node_padding)),
                   i + 1)

\* Lines 207-219: the loop over layers.items() from item i on. The division of line
\* 213 raises ZeroDivisionError when the layer has a node and its values sum to 0.
RECURSIVE LayerLoop(_, _, _, _, _)
LayerLoop(st, lys, ordering, node_values, i) ==
    IF i > Len(lys) THEN st
    ELSE LET ordered_ids == OrderedIds(ordering, lys[i])
             values == [j \in DOMAIN ordered_ids |-> Get(node_values, ordered_ids[j], 1)]
             total_val == IF values # <<>> THEN SumSeq(values, 1) ELSE 1
             layer_xs == LayerXs(lys)
             x == Get(layer_xs, lys[i].key, Float(20))
         IN  IF values # <<>> /\ total_val = 0 THEN Raised("ZeroDivisionError")
             ELSE LayerLoop(PlaceLoop(st, ordered_ids,
                                      [j \in DOMAIN values |-> RawHeight(values[j], total_val)],
                                      x, Float(20), 1),
                            lys, ordering, node_values, i + 1)

\* compute_positions(layers, ordering, node_values): [positions, sizes], or the
\* exception raised.
compute_positions(lys, ordering, node_values) ==
    LayerLoop([positions |-> <<>>, sizes |-> <<>>], lys, ordering, node_values, 1)

-----------------------------------------------------------------------------
(* sankey_pipeline.py: _compute_link_thicknesses *)

min_thickness == 1

\* Lines 247-252: sum_out[nid] (side "source") or sum_in[nid] (side "target") after
\* the loop over ls[i..]; 0 for an id no link names on that side.
RECURSIVE SideSum(_, _, _, _)
SideSum(ls, side, nid, i) ==
    IF i > Len(ls) THEN 0
    ELSE (IF ls[i][side] = nid THEN Get(ls[i], "value", 0) ELSE 0)
         + SideSum(ls, side, nid, i + 1)

\* Variant of Scale: the width factor is left out.
Scale_NoFactor(node_h, f, total) == FDiv(node_h, Float(total))

\* Lines 263 and 265: (node_h * factor) / so, for so > 0.
Scale(node_h, f, total) == FDiv(FMul(node_h, f), Float(total))

\* Lines 255-265: scale_out (side "source") or scale_in (side "target"): an entry for
\* each id of 'sizes' with a positive sum on that side.
SideScale(ls, szs, f, side) ==
    [nid \in {x \in DOMAIN szs : SideSum(ls, side, x, 1) > 0} |->
        Scale(szs[nid][2], f, SideSum(ls, side, nid, 1))]

\* sorted(), for a list of floats.
RECURSIVE SortFloats(_)
SortFloats(s) ==
    IF s = <<>> THEN <<>>
    ELSE LET rest == SortFloats(SubSeq(s, 1, Len(s) - 1))
             x == s[Len(s)]
             k == Cardinality({i \in DOMAIN rest : FLe(rest[i], x)})
         IN  SubSeq(rest, 1, k) \o <<x>> \o SubSeq(rest, k + 1, Len(rest))

\* The set S as a list, in some order.
RECURSIVE SetToSeq(_)
SetToSeq(S) ==
    IF S = {} THEN <<>>
    ELSE LET x == CHOOSE y \in S : TRUE IN <<x>> \o SetToSeq(S \ {x})

\* Lines 269-273: sorted([h for (w, h) in sizes.values()])[len(sizes)//2], and 40.0
\* when 'sizes' is empty (the IndexError is caught).
MedianH(szs) ==
    LET ids == SetToSeq(DOMAIN szs)
        hs == SortFloats([i \in DOMAIN ids |-> szs[ids[i]][2]])
    IN  IF hs = <<>> THEN Float(40) ELSE hs[(Len(hs) \div 2) + 1]

\* Line 274: (median_h * factor) / max(1.0, max(values of the links)), for a
\* non-empty link list.
DefaultScale(ls, szs, f) ==
    LET top == MaxOfSet({Get(ls[i], "value", 0) : i \in DOMAIN ls}) IN
    FDiv(FMul(MedianH(szs), f), Float(IF top > 1 THEN top ELSE 1))

\* Lines 279-288: the scale of a link, from the scales of its two ends.
LinkScale(l, scale_out, scale_in, default_scale) ==
    LET s_src == Get(scale_out, l["source"], None)
        s_tgt == Get(scale_in, l["target"], None)
    IN  IF s_src # None /\ s_tgt # None THEN FDiv(FAdd(s_src, s_tgt), Float(2))
        ELSE IF s_src # None THEN s_src
        ELSE IF s_tgt # None THEN s_tgt
        ELSE default_scale

\* _compute_link_thicknesses(links, sizes, factor): the thickness of each link; the
\* key i of the dict is the index i + 1 of the list.
_compute_link_thicknesses(ls, szs, f) ==
    IF ls = <<>> THEN <<>>
    ELSE LET scale_out == SideScale(ls, szs, f, "source")
             scale_in == SideScale(ls, szs, f, "target")
             default_scale == DefaultScale(ls, szs, f)
         IN  [i \in DOMAIN ls |->
                 FMax(Float(min_thickness),
                      FMul(Float(Get(ls[i], "value", 0)),
                           LinkScale(ls[i], scale_out, scale_in, default_scale)))]

-----------------------------------------------------------------------------
(* sankey_pipeline.py: _stack_links_by_node *)

\* The distinct elements of the list s, in the order of their first occurrence (the
\* keys of a dict filled in that order).
RECURSIVE FirstOccurrences(_, _)
FirstOccurrences(s, i) ==
    IF i > Len(s) THEN <<>>
    ELSE IF \E j \in 1..(i - 1) : s[j] = s[i]
         THEN FirstOccurrences(s, i + 1)
         ELSE <<s[i]>> \o FirstOccurrences(s, i + 1)

\* Lines 296-300: out_lists[nid] (side "source") or in_lists[nid] (side "target"),
\* the indexes of the links that name nid on that side, in link order.
SideList(ls, side, nid) ==
    SelectSeq([i \in DOMAIN ls |-> i], LAMBDA i : ls[i][side] = nid)

\* Lines 311 and 332: sum(thickness_map.get(idx, 0.0) for idx in idxs)
RECURSIVE TotalThickness(_, _, _)
TotalThickness(tm, idxs, k) ==
    IF k > Len(idxs) THEN Float(0)
    ELSE FAdd(Get(tm, idxs[k], Float(0)), TotalThickness(tm, idxs, k + 1))

\* Lines 319-323 and 340-344: the entry of a link with the top, the bottom and the
\* thickness of one side set.
SetSide(lp, idx, side, top, bot, t) ==
    LET old == Get(lp, idx, <<>>)
        new == [k \in DOMAIN old \cup {side \o "_top", side \o "_bot", "thickness"} |->
                   IF k = side \o "_top" THEN top
                   ELSE IF k = side \o "_bot" THEN bot
                   ELSE IF k = "thickness" THEN t
                   ELSE old[k]]
    IN  Put(lp, idx, new)

\* Variant of StackLoop: the running offset is not advanced.
RECURSIVE StackLoop_NoAdvance(_, _, _, _, _, _)
StackLoop_NoAdvance(lp, tm, idxs, side, cur, k) ==
    IF k > Len(idxs) THEN lp
    ELSE LET t == Get(tm, idxs[k], Float(1)) IN
         StackLoop_NoAdvance(SetSide(lp, idxs[k], side, cur, FAdd(cur, t), t),
                             tm, idxs, side, cur, k + 1)

\* Lines 315-324 and 336-345: "for idx in idxs" from the k-th index on, cur being the
\* running offset; side is "s" or "t".
RECURSIVE StackLoop(_, _, _, _, _, _)
StackLoop(lp, tm, idxs, side, cur, k) ==
    IF k > Len(idxs) THEN lp
    ELSE LET t == Get(tm, idxs[k], Float(1)) IN
         StackLoop(SetSide(lp, idxs[k], side, cur, FAdd(cur, t), t),
                   tm, idxs, side, FAdd(cur, t), k + 1)

\* Lines 307-314 and 329-335: where the stack of a node starts.
StackStart(pos, size, total_t, center) ==
    LET h == size[2]
        top == FSub(pos[2], FDiv(h, Float(2)))
    IN  IF center /\ FLt(total_t, h)
        THEN FAdd(top, FDiv(FSub(h, total_t), Float(2)))
        ELSE top

\* Lines 304-324 and 326-345: the loop over the items of out_lists or in_lists from
\* the i-th key on.
RECURSIVE NodeStackLoop(_, _, _, _, _, _, _, _, _)
NodeStackLoop(lp, ls, pos, szs, tm, center, side, keys, i) ==
    IF i > Len(keys) THEN lp
    ELSE LET nid == keys[i]
             idxs == SideList(ls, IF side = "s" THEN "source" ELSE "target", nid)
         IN  IF nid \notin DOMAIN pos \/ nid \notin DOMAIN szs
             THEN NodeStackLoop(lp, ls, pos, szs, tm, center, side, keys, i + 1)
             ELSE NodeStackLoop(
                      StackLoop(lp, tm, idxs, side,
                                StackStart(pos[nid], szs[nid],
                                           TotalThickness(tm, idxs, 1), center), 1),
                      ls, pos, szs, tm, center, side, keys, i + 1)

\* _stack_links_by_node(links, positions, sizes, thickness_map, center_stacks): the
\* entries of link_positions; the key i of the dict is the index i + 1 of the list.
_stack_links_by_node(ls, pos, szs, tm, center) ==
    LET sources == FirstOccurrences([i \in DOMAIN ls |-> ls[i]["source"]], 1)
        targets == FirstOccurrences([i \in DOMAIN ls |-> ls[i]["target"]], 1)
        outgoing == NodeStackLoop(<<>>, ls, pos, szs, tm, center, "s", sources, 1)
    IN  NodeStackLoop(outgoing, ls, pos, szs, tm, center, "t", targets, 1)

-----------------------------------------------------------------------------
(* sankey_pipeline.py: render_svg *)

\* Lines 373-379: the fallback, a stroked curve from the centre of the source to the
\* centre of the target.
StrokedCurve(li, l, pos, szs, tm) ==
    [kind |-> "stroke", link |-> li,
     start_x |-> FAdd(pos[l["source"]][1],
                      FDiv(Get(szs, l["source"], <<Float(10), Float(10)>>)[1], Float(2))),
     end_x |-> FSub(pos[l["target"]][1],
                    FDiv(Get(szs, l["target"], <<Float(10), Float(10)>>)[1], Float(2))),
     y1 |-> pos[l["source"]][2], y2 |-> pos[l["target"]][2],
     stroke_width |-> Get(tm, li + 1, Float(1))]

\* Lines 382-402: the filled ribbon between the stacked offsets of the two ends.
FilledRibbon(li, l, pos, szs, lp) ==
    LET s_x == pos[l["source"]][1]
        t_x == pos[l["target"]][1]
        s_w == Get(szs, l["source"], <<Float(10), Float(10)>>)[1]
        t_w == Get(szs, l["target"], <<Float(10), Float(10)>>)[1]
        forward == FLe(s_x, t_x)
    IN  [kind |-> "ribbon", link |-> li,
         start_x |-> IF forward THEN FAdd(s_x, FDiv(s_w, Float(2)))
                     ELSE FSub(s_x, FDiv(s_w, Float(2))),
         end_x |-> IF forward THEN FSub(t_x, FDiv(t_w, Float(2)))
                   ELSE FAdd(t_x, FDiv(t_w, Float(2))),
         s_top |-> lp["s_top"], s_bot |-> lp["s_bot"],
         t_top |-> lp["t_top"], t_bot |-> lp["t_bot"]]

\* Variant of DrawLink: a link without stacked offsets is not drawn.
DrawLink_NoFallback(li, l, pos, szs, tm, lpm) ==
    IF l["source"] \notin DOMAIN pos \/ l["target"] \notin DOMAIN pos THEN <<>>
    ELSE IF \/ li + 1 \notin DOMAIN lpm
            \/ "s_top" \notin DOMAIN lpm[li + 1]
            \/ "t_top" \notin DOMAIN lpm[li + 1]
         THEN <<>>
         ELSE <<FilledRibbon(li, l, pos, szs, lpm[li + 1])>>

\* Lines 366-402: what the loop over the links appends for link i (index li = i - 1):
\* nothing when an end has no position, the fallback when the link has no stacked
\* offsets for both ends, the ribbon otherwise.
DrawLink(li, l, pos, szs, tm, lpm) ==
    IF l["source"] \notin DOMAIN pos \/ l["target"] \notin DOMAIN pos THEN <<>>
    ELSE IF \/ li + 1 \notin DOMAIN lpm
            \/ "s_top" \notin DOMAIN lpm[li + 1]
            \/ "t_top" \notin DOMAIN lpm[li + 1]
         THEN <<StrokedCurve(li, l, pos, szs, tm)>>
         ELSE <<FilledRibbon(li, l, pos, szs, lpm[li + 1])>>

RECURSIVE DrawLinks(_, _, _, _, _, _)
DrawLinks(ls, pos, szs, tm, lpm, i) ==
    IF i > Len(ls) THEN <<>>
    ELSE DrawLink(i - 1, ls[i], pos, szs, tm, lpm)
         \o DrawLinks(ls, pos, szs, tm, lpm, i + 1)

\* Lines 405-415: the rectangle of a node, dashed for a synthetic node, and the label
\* of any other node.
DrawNode(nid, pos, szs, node_by_id) ==
    LET size == Get(szs, nid, <<Float(10), Float(10)>>)
        node == Get(node_by_id, nid, <<>>)
    IN  [kind |-> "rect", id |-> nid,
         rx |-> FSub(pos[nid][1], FDiv(size[1], Float(2))),
         ry |-> FSub(pos[nid][2], FDiv(size[2], Float(2))),
         w |-> size[1], h |-> size[2],
         dashed |-> Get(node, "dummy", FALSE),
         label |-> IF Get(node, "dummy", FALSE) THEN None
                   ELSE IF Get(node, "label", None) = None THEN PyStr(nid)
                   ELSE node["label"]]

\* render_svg(nodes, links, positions, sizes, layer_map, link_width_factor): the
\* elements written between the style and the end of the file: the paths of the
\* links, in link order, and the rectangles of the nodes (their order, that of the
\* keys of 'positions', is left out, and numbers are kept unformatted).
render_svg(ns, ls, pos, szs, f) ==
    LET thickness == _compute_link_thicknesses(ls, szs, f)
        link_pos == _stack_links_by_node(ls, pos, szs, thickness, TRUE)
        node_by_id == NodeMap(ns)
    IN  [paths |-> DrawLinks(ls, pos, szs, thickness, link_pos, 1),
         rects |-> {DrawNode(nid, pos, szs, node_by_id) : nid \in DOMAIN pos}]

-----------------------------------------------------------------------------
(* Python objects. A dict or a list is an object with an address: two names  *)
(* can hold the same object, and a write through one is seen through the     *)
(* other. h is [dicts, lists]: the dict at address a is h.dicts[a], the list *)
(* at address a is h.lists[a], a sequence of addresses of dicts. A new       *)
(* object gets the next free address.                                        *)

\* The list at address a with each element replaced by the dict it refers to.
Deref(h, a) == [i \in DOMAIN h.lists[a] |-> h.dicts[h.lists[a][i]]]

\* The addresses of k new dicts.
Fresh(h, k) == [i \in 1..k |-> Len(h.dicts) + i]

\* New dict objects with the given contents.
NewDicts(h, recs) == [h EXCEPT !.dicts = @ \o recs]

\* A new list object that holds the given addresses; its address is LastList.
NewList(h, refs) == [h EXCEPT !.lists = Append(@, refs)]

LastList(h) == Len(h.lists)

\* lst.append(x) for each address of refs, on the list at address a.
Extend(h, a, refs) == [h EXCEPT !.lists[a] = @ \o refs]

\* Variant of ListCopy: no copy is made, the name holds the list itself.
ListCopy_Alias(h, a) == [heap |-> h, addr |-> a]

\* list(lst): a new list that holds the same objects.
ListCopy(h, a) ==
    LET h1 == NewList(h, h.lists[a]) IN [heap |-> h1, addr |-> LastList(h1)]

\* Variant of DictCopies: [n for n in lst], the new list holds the same dicts.
DictCopies_Shared(h, a) ==
    LET h1 == NewList(h, h.lists[a]) IN [heap |-> h1, addr |-> LastList(h1)]

\* [dict(n) for n in lst]: a new list of new dicts with the same contents.
DictCopies(h, a) ==
    LET h1 == NewList(NewDicts(h, Deref(h, a)), Fresh(h, Len(h.lists[a])))
    IN  [heap |-> h1, addr |-> LastList(h1)]

-----------------------------------------------------------------------------
(* sankey_multi.py: split_long_links, on objects *)

\* split_long_links(nodes, links, segments) for the lists at the addresses na and
\* la: the objects after the call and the addresses of the two lists returned.
\* Line 45 copies the node list and line 89 appends the new dummy dicts to the copy;
\* line 46 makes the link list, and each dict appended to it (lines 55, 62, 67, 74,
\* 91, 100) is a new one. No statement of the function assigns to a key of a dict
\* it was given or changes the list 'links'.
SplitObjects(h, na, la, segs) ==
    LET r == split_long_links(Deref(h, na), Deref(h, la), segs)
        c == ListCopy(h, na)
        dummies == SubSeq(r.new_nodes, Len(h.lists[na]) + 1, Len(r.new_nodes))
        h1 == Extend(NewDicts(c.heap, dummies), c.addr, Fresh(c.heap, Len(dummies)))
        h2 == NewList(NewDicts(h1, r.new_links), Fresh(h1, Len(r.new_links)))
    IN  [heap |-> h2, new_nodes |-> c.addr, new_links |-> LastList(h2)]

-----------------------------------------------------------------------------
(* sankey_pipeline.py: build_internal_graph *)

\* Lines 116-118: "for n in nodes_copy: if n['id'] in layer_map: n['segment'] =
\* layer_map[n['id']]" over refs[i..], each assignment a write to the dict object.
RECURSIVE AssignSegments(_, _, _, _)
AssignSegments(h, refs, lm, i) ==
    IF i > Len(refs) THEN h
    ELSE LET n == h.dicts[refs[i]] IN
         AssignSegments(IF n["id"] \in DOMAIN lm
                        THEN [h EXCEPT !.dicts[refs[i]] =
                                 Put(n, "segment", PyInt(lm[n["id"]]))]
                        ELSE h,
                        refs, lm, i + 1)

-----------------------------------------------------------------------------
(* The inputs of split_long_links that are explored. *)

\* Node ids are unique within a node list. The third id has the form of the ids
\* split_long_links generates.
SplitNodeIds == <<"A", "B", "__dummy_l0_2_1">>

SegmentNames == {"mid", "nope"}

SegmentLists == {None, PyList(<<"left", "mid", "right">>)}

\* A node of the given id: no segment, an integer segment, or a segment name.
NodeChoices(id) ==
    {[id |-> id]}
    \cup {[id |-> id, segment |-> PyInt(k)] : k \in 0..MaxLayer}
    \cup {[id |-> id, segment |-> PyStr(s)] : s \in SegmentNames}

\* The node lists over ids[i..], each id present at most once, in the order of ids.
RECURSIVE NodeLists(_, _)
NodeLists(ids, i) ==
    IF i > Len(ids) THEN {<<>>}
    ELSE LET rest == NodeLists(ids, i + 1) IN
         rest \cup {<<n>> \o r : n \in NodeChoices(ids[i]), r \in rest}

\* What the i-th link of a list carries besides its endpoints: a value and metadata,
\* a value alone, or metadata and no 'value' key.
Payload(i) ==
    CASE i % 3 = 1 -> [value |-> 8, label |-> "long"]
      [] i % 3 = 2 -> [value |-> 2]
      [] OTHER     -> [color |-> "red"]

MakeLink(s, t, p) ==
    [k \in {"source", "target"} \cup DOMAIN p |->
        IF k = "source" THEN s ELSE IF k = "target" THEN t ELSE p[k]]

\* The link lists of at most n links between the given ids (present in the node
\* list or not).
RECURSIVE LinkLists(_, _)
LinkLists(ids, n) ==
    IF n = 0 THEN {<<>>}
    ELSE LET shorter == LinkLists(ids, n - 1) IN
         shorter \cup {Append(ls, MakeLink(s, t, Payload(n))) :
                          ls \in {x \in shorter : Len(x) = n - 1}, s \in ids, t \in ids}

Range(s) == {s[i] : i \in DOMAIN s}

\* The variables of the layout and rendering stages, in a specification that does
\* not call them.
LayoutUnused ==
    /\ layers = <<>>
    /\ iterations = 0
    /\ order = <<>>
    /\ calls = 0
    /\ positions = <<>>
    /\ sizes = <<>>
    /\ factor = None
    /\ center_stacks = FALSE
    /\ thickness_map = <<>>
    /\ link_pos_map = <<>>
    /\ svg = <<>>

\* The variables of build_internal_graph and of the repeated split, in a
\* specification that does not use them.
GraphUnused ==
    /\ heap = [dicts |-> <<>>, lists |-> <<>>]
    /\ nodes_copy = 0
    /\ final_layer_map = <<>>
    /\ resplit_nodes = <<>>
    /\ resplit_links = <<>>

-----------------------------------------------------------------------------
(* Specification Spec: one call of split_long_links on an explored input. *)

Init ==
    /\ pc = "input"
    /\ nodes \in NodeLists(SplitNodeIds, 1)
    /\ links \in LinkLists(Range(SplitNodeIds), MaxLinks)
    /\ segments \in SegmentLists
    /\ new_nodes = <<>>
    /\ new_links = <<>>
    /\ layer_map = <<>>
    /\ vals = <<>>
    /\ LayoutUnused
    /\ GraphUnused

Split ==
    /\ pc = "input"
    /\ LET r == split_long_links(nodes, links, segments) IN
       /\ new_nodes' = r.new_nodes
       /\ new_links' = r.new_links
    /\ pc' = "split"
    /\ UNCHANGED <<nodes, links, segments, layer_map, vals>>
    /\ UNCHANGED layout_vars
    /\ UNCHANGED graph_vars

Next == Split

Spec == Init /\ [][Next]_vars

-----------------------------------------------------------------------------
(* Specification ResplitSpec: split_long_links is called on an explored input *)
(* and then on its own result, with the same segment list.                   *)

\* split_long_links(new_nodes, new_links, segments), the arguments being the result
\* of the first call.
SplitAgain ==
    /\ pc = "split"
    /\ LET r == split_long_links(new_nodes, new_links, segments) IN
       /\ resplit_nodes' = r.new_nodes
       /\ resplit_links' = r.new_links
    /\ pc' = "resplit"
    /\ UNCHANGED <<nodes, links, segments, new_nodes, new_links, layer_map, vals,
                   heap, nodes_copy, final_layer_map>>
    /\ UNCHANGED layout_vars

ResplitNext == Split \/ SplitAgain

ResplitSpec == Init /\ [][ResplitNext]_vars

-----------------------------------------------------------------------------
(* Specification LayerSpec: one call of infer_layers on an explored input. *)

LayerNodeIds == <<"A", "B", "C">>

LayerInit ==
    /\ pc = "input"
    /\ nodes \in NodeLists(LayerNodeIds, 1)
    /\ links \in LinkLists(Range(LayerNodeIds), MaxLinks)
    /\ segments \in SegmentLists
    /\ new_nodes = <<>>
    /\ new_links = <<>>
    /\ layer_map = <<>>
    /\ vals = <<>>
    /\ LayoutUnused
    /\ GraphUnused

InferLayers ==
    /\ pc = "input"
    /\ layer_map' = infer_layers(nodes, links, segments)
    /\ pc' = "layers"
    /\ UNCHANGED <<nodes, links, segments, new_nodes, new_links, vals>>
    /\ UNCHANGED layout_vars
    /\ UNCHANGED graph_vars

LayerNext == InferLayers

LayerSpec == LayerInit /\ [][LayerNext]_vars

-----------------------------------------------------------------------------
(* Specification ValueSpec: one call of compute_node_values on an explored input. *)

ValueNodeIds == <<"A", "B">>

\* A node of the given id: no declared value, or a declared value (the code accepts
\* any number).
ValuedNodeChoices(id) ==
    {[id |-> id]} \cup {[id |-> id, value |-> v] : v \in (-1)..MaxValue}

RECURSIVE ValuedNodeLists(_, _)
ValuedNodeLists(ids, i) ==
    IF i > Len(ids) THEN {<<>>}
    ELSE LET rest == ValuedNodeLists(ids, i + 1) IN
         rest \cup {<<n>> \o r : n \in ValuedNodeChoices(ids[i]), r \in rest}

\* The ids a link may name: those of ValueNodeIds and one that is never a node.
ValueLinkIds == {"A", "B", "Z"}

\* A link with a value in 1..MaxValue, or without the 'value' key (which counts as 0).
ValuedLinkChoices(ids) ==
    {[source |-> s, target |-> t] : s, t \in ids}
    \cup {[source |-> s, target |-> t, value |-> v] : s, t \in ids, v \in 1..MaxValue}

RECURSIVE ValuedLinkLists(_, _)
ValuedLinkLists(ids, n) ==
    IF n = 0 THEN {<<>>}
    ELSE LET shorter == ValuedLinkLists(ids, n - 1) IN
         shorter \cup {Append(ls, l) : ls \in {x \in shorter : Len(x) = n - 1},
                                        l \in ValuedLinkChoices(ids)}

ValueInit ==
    /\ pc = "input"
    /\ nodes \in ValuedNodeLists(ValueNodeIds, 1)
    /\ links \in ValuedLinkLists(ValueLinkIds, MaxLinks)
    /\ segments = None
    /\ new_nodes = <<>>
    /\ new_links = <<>>
    /\ layer_map = <<>>
    /\ vals = <<>>
    /\ LayoutUnused
    /\ GraphUnused

ComputeNodeValues ==
    /\ pc = "input"
    /\ vals' = compute_node_values(nodes, links)
    /\ pc' = "values"
    /\ UNCHANGED <<nodes, links, segments, new_nodes, new_links, layer_map>>
    /\ UNCHANGED layout_vars
    /\ UNCHANGED graph_vars

ValueNext == ComputeNodeValues

ValueSpec == ValueInit /\ [][ValueNext]_vars

-----------------------------------------------------------------------------
(* Specification OrderSpec: one call of barycenter_ordering, one step per call  *)
(* of its inner function barycenter().                                          *)

OrderNodeIds == <<"A", "B", "C", "D">>

\* A node of the given id with an integer layer: one of two layers, and for the last
\* id also a third one.
OrderNodeChoices(id) ==
    {[id |-> id, segment |-> PyInt(k)] : k \in IF id = "D" THEN 0..2 ELSE 0..1}

\* The node lists of the ids[i..] in order; the last id may be absent, so that a link
\* can name an id that is in no layer.
RECURSIVE OrderNodeLists(_, _)
OrderNodeLists(ids, i) ==
    IF i > Len(ids) THEN {<<>>}
    ELSE LET rest == OrderNodeLists(ids, i + 1) IN
         (IF ids[i] = "D" THEN rest ELSE {})
         \cup {<<n>> \o r : n \in OrderNodeChoices(ids[i]), r \in rest}

\* sankey_pipeline.py:120-124, final_layer_map: an entry for each id of the node
\* list whose 'segment' is an integer; a later node of the same id with an integer
\* 'segment' overwrites an earlier one.
FinalLayerMap(ns) ==
    LET known == {i \in DOMAIN ns : IsInt(Get(ns[i], "segment", None))} IN
    [id \in {ns[i]["id"] : i \in known} |->
        ns[CHOOSE i \in known :
              /\ ns[i]["id"] = id
              /\ \A j \in known : ns[j]["id"] = id => j <= i]["segment"].int]

OrderInit ==
    /\ pc = "input"
    /\ nodes \in OrderNodeLists(OrderNodeIds, 1)
    /\ links \in LinkLists(Range(OrderNodeIds), MaxLinks)
    /\ segments = None
    /\ new_nodes = <<>>
    /\ new_links = <<>>
    /\ layer_map = FinalLayerMap(nodes)
    /\ vals = <<>>
    /\ layers = group_by_layer(nodes, layer_map)
    /\ iterations \in 0..MaxIterations
    /\ order = <<>>
    /\ calls = 0
    /\ positions = <<>>
    /\ sizes = <<>>
    /\ factor = None
    /\ center_stacks = FALSE
    /\ thickness_map = <<>>
    /\ link_pos_map = <<>>
    /\ svg = <<>>
    /\ GraphUnused

\* Lines 152-158 and 185: the locals are set up.
StartOrdering ==
    /\ pc = "input"
    /\ order' = InitialOrder(layers)
    /\ pc' = "ordering"
    /\ UNCHANGED <<nodes, links, segments, new_nodes, new_links, layer_map, vals,
                   layers, iterations, calls, positions, sizes, factor, center_stacks,
                   thickness_map, link_pos_map, svg>>
    /\ UNCHANGED graph_vars

\* The barycenter() calls still to make, and the next one.
SweepsLeft == calls < iterations * Len(Sweeps(order))

NextSweep == LET sw == Sweeps(order) IN sw[(calls % Len(sw)) + 1]

\* Line 188: barycenter(li, upward=True)
SweepUpward ==
    /\ pc = "ordering"
    /\ SweepsLeft
    /\ NextSweep.upward
    /\ order' = barycenter(order, NextSweep.li, TRUE, links)
    /\ calls' = calls + 1
    /\ UNCHANGED <<pc, nodes, links, segments, new_nodes, new_links, layer_map, vals,
                   layers, iterations, positions, sizes, factor, center_stacks,
                   thickness_map, link_pos_map, svg>>
    /\ UNCHANGED graph_vars

\* Line 190: barycenter(li, upward=False)
SweepDownward ==
    /\ pc = "ordering"
    /\ SweepsLeft
    /\ ~NextSweep.upward
    /\ order' = barycenter(order, NextSweep.li, FALSE, links)
    /\ calls' = calls + 1
    /\ UNCHANGED <<pc, nodes, links, segments, new_nodes, new_links, layer_map, vals,
                   layers, iterations, positions, sizes, factor, center_stacks,
                   thickness_map, link_pos_map, svg>>
    /\ UNCHANGED graph_vars

\* Line 191: return order
ReturnOrder ==
    /\ pc = "ordering"
    /\ ~SweepsLeft
    /\ pc' = "ordered"
    /\ UNCHANGED <<nodes, links, segments, new_nodes, new_links, layer_map, vals,
                   layers, iterations, order, calls, positions, sizes, factor,
                   center_stacks, thickness_map, link_pos_map, svg>>
    /\ UNCHANGED graph_vars

OrderNext == StartOrdering \/ SweepUpward \/ SweepDownward \/ ReturnOrder

OrderSpec == OrderInit /\ [][OrderNext]_vars

-----------------------------------------------------------------------------
(* Specification PositionSpec: one call of compute_positions on the grouping of *)
(* an explored node list.                                                       *)

PositionNodeIds == <<"A", "B", "C">>

\* A node of the given id with an integer layer.
LayeredNodeChoices(id) == {[id |-> id, segment |-> PyInt(k)] : k \in 0..MaxLayer}

\* The node lists over ids[i..], each id present at most once, in the order of ids.
RECURSIVE LayeredNodeLists(_, _)
LayeredNodeLists(ids, i) ==
    IF i > Len(ids) THEN {<<>>}
    ELSE LET rest == LayeredNodeLists(ids, i + 1) IN
         rest \cup {<<n>> \o r : n \in LayeredNodeChoices(ids[i]), r \in rest}

\* The list s in reverse.
Reverse(s) == [i \in DOMAIN s |-> s[Len(s) + 1 - i]]

\* The orderings passed for a grouping: each layer in the grouping's order, each
\* layer in the reverse order, or no entry at all.
Orderings(lys) ==
    {InitialOrder(lys),
     [i \in DOMAIN lys |-> [key |-> lys[i].key, val |-> Reverse(InitialOrder(lys)[i].val)]],
     <<>>}

PositionInit ==
    /\ pc = "input"
    /\ nodes \in LayeredNodeLists(PositionNodeIds, 1)
    /\ links = <<>>
    /\ segments = None
    /\ new_nodes = <<>>
    /\ new_links = <<>>
    /\ layer_map = FinalLayerMap(nodes)
    /\ vals \in [{nodes[i]["id"] : i \in DOMAIN nodes} -> 0..MaxValue]
    /\ layers = group_by_layer(nodes, layer_map)
    /\ iterations = 0
    /\ order \in Orderings(layers)
    /\ calls = 0
    /\ positions = <<>>
    /\ sizes = <<>>
    /\ factor = None
    /\ center_stacks = FALSE
    /\ thickness_map = <<>>
    /\ link_pos_map = <<>>
    /\ svg = <<>>
    /\ GraphUnused

\* compute_positions(layers, ordering, node_values) returns.
ComputePositions ==
    /\ pc = "input"
    /\ LET r == compute_positions(layers, order, vals) IN
       /\ ~IsRaised(r)
       /\ positions' = r.positions
       /\ sizes' = r.sizes
    /\ pc' = "positions"
    /\ UNCHANGED <<nodes, links, segments, new_nodes, new_links, layer_map, vals,
                   layers, iterations, order, calls, factor, center_stacks,
                   thickness_map, link_pos_map, svg>>
    /\ UNCHANGED graph_vars

\* compute_positions(layers, ordering, node_values) raises.
ComputePositionsRaises ==
    /\ pc = "input"
    /\ LET r == compute_positions(layers, order, vals) IN
       /\ IsRaised(r)
       /\ pc' = r.raised
    /\ UNCHANGED <<nodes, links, segments, new_nodes, new_links, layer_map, vals,
                   layers, iterations, order, calls, positions, sizes, factor,
                   center_stacks, thickness_map, link_pos_map, svg>>
    /\ UNCHANGED graph_vars

PositionNext == ComputePositions \/ ComputePositionsRaises

PositionSpec == PositionInit /\ [][PositionNext]_vars

-----------------------------------------------------------------------------
(* Specification RenderSpec: on an explored layout, one call of                 *)
(* _compute_link_thicknesses followed by one of _stack_links_by_node, or one    *)
(* call of render_svg.                                                          *)

RenderNodeIds == <<"A", "B">>

\* The node of each id: a labelled node and a synthetic node.
RenderNode(id) ==
    IF id = "A" THEN [id |-> id, label |-> PyStr("Alpha")]
    ELSE [id |-> id, label |-> None, dummy |-> TRUE]

\* The x of the node's layer, as compute_positions gives it for two layers.
RenderX(id) == IF id = "A" THEN Float(20) ELSE Float(width - 20)

\* The heights a node box may have.
RenderHeights == {Float(min_node_h), Float(30)}

\* What the layout holds for one node: nothing (the id is no node), a position and
\* no size, or a position and a size with the box's top edge at y = 20.
RenderLayouts(id) ==
    {[node |-> <<>>, pos |-> <<>>, size |-> <<>>],
     [node |-> <<RenderNode(id)>>, pos |-> <<<<RenderX(id), Float(50)>>>>, size |-> <<>>]}
    \cup {[node |-> <<RenderNode(id)>>,
           pos  |-> <<<<RenderX(id), FAdd(Float(20), FDiv(h, Float(2)))>>>>,
           size |-> <<<<Float(node_width), h>>>>] : h \in RenderHeights}

\* The width factors explored.
RenderFactors == {Frac(1, 2), Float(1)}

RenderInit ==
    /\ pc = "input"
    /\ \E la \in RenderLayouts("A"), lb \in RenderLayouts("B") :
          /\ nodes = la.node \o lb.node
          /\ positions = [id \in {"A" : x \in DOMAIN la.pos} \cup {"B" : x \in DOMAIN lb.pos}
                             |-> IF id = "A" THEN la.pos[1] ELSE lb.pos[1]]
          /\ sizes = [id \in {"A" : x \in DOMAIN la.size} \cup {"B" : x \in DOMAIN lb.size}
                         |-> IF id = "A" THEN la.size[1] ELSE lb.size[1]]
    /\ links \in ValuedLinkLists(Range(RenderNodeIds), MaxLinks)
    /\ segments = None
    /\ new_nodes = <<>>
    /\ new_links = <<>>
    /\ layer_map = <<>>
    /\ vals = <<>>
    /\ layers = <<>>
    /\ iterations = 0
    /\ order = <<>>
    /\ calls = 0
    /\ factor \in RenderFactors
    /\ center_stacks \in BOOLEAN
    /\ thickness_map = <<>>
    /\ link_pos_map = <<>>
    /\ svg = <<>>
    /\ GraphUnused

\* _compute_link_thicknesses(links, sizes, factor)
ComputeLinkThicknesses ==
    /\ pc = "input"
    /\ thickness_map' = _compute_link_thicknesses(links, sizes, factor)
    /\ pc' = "thickness"
    /\ UNCHANGED <<nodes, links, segments, new_nodes, new_links, layer_map, vals,
                   layers, iterations, order, calls, positions, sizes, factor,
                   center_stacks, link_pos_map, svg>>
    /\ UNCHANGED graph_vars

\* _stack_links_by_node(links, positions, sizes, thickness_map, center_stacks)
StackLinksByNode ==
    /\ pc = "thickness"
    /\ link_pos_map' = _stack_links_by_node(links, positions, sizes, thickness_map,
                                            center_stacks)
    /\ pc' = "stacked"
    /\ UNCHANGED <<nodes, links, segments, new_nodes, new_links, layer_map, vals,
                   layers, iterations, order, calls, positions, sizes, factor,
                   center_stacks, thickness_map, svg>>
    /\ UNCHANGED graph_vars

\* render_svg(nodes, links, positions, sizes, layer_map, link_width_factor=factor)
RenderSvg ==
    /\ pc = "input"
    /\ svg' = render_svg(nodes, links, positions, sizes, factor)
    /\ pc' = "rendered"
    /\ UNCHANGED <<nodes, links, segments, new_nodes, new_links, layer_map, vals,
                   layers, iterations, order, calls, positions, sizes, factor,
                   center_stacks, thickness_map, link_pos_map>>
    /\ UNCHANGED graph_vars

RenderNext == ComputeLinkThicknesses \/ StackLinksByNode \/ RenderSvg

RenderSpec == RenderInit /\ [][RenderNext]_vars

-----------------------------------------------------------------------------
(* Specification GraphSpec: one call of build_internal_graph, statement by    *)
(* statement, or one call of split_long_links, on the caller's objects. The   *)
(* variables 'nodes' and 'links' keep the contents of the two lists at the    *)
(* time of the call; 'heap' holds the objects as the call leaves them.        *)

\* The third id is a plain one or has the form of the ids split_long_links
\* generates.
GraphThirdIds == {"C", "__dummy_l0_2_1"}

\* The node lists explored: a first node "A" without segment or in layer 0, then
\* optionally "B" without segment or in layer MaxLayer, then optionally a node of
\* the third id without segment.
GraphNodeLists(third) ==
    {<<a>> \o b \o c :
        a \in {[id |-> "A"], [id |-> "A", segment |-> PyInt(0)]},
        b \in {<<>>, <<[id |-> "B"]>>, <<[id |-> "B", segment |-> PyInt(MaxLayer)]>>},
        c \in {<<>>, <<[id |-> third]>>}}

\* The addresses of the caller's node list and link list.
NodesArg == 1

LinksArg == 2

\* The caller's objects: the node dicts, then the link dicts, and the two lists.
CallerObjects(ns, ls) ==
    [dicts |-> ns \o ls,
     lists |-> <<[i \in DOMAIN ns |-> i], [i \in DOMAIN ls |-> Len(ns) + i]>>]

GraphInit ==
    /\ pc = "input"
    /\ \E third \in GraphThirdIds :
          /\ nodes \in GraphNodeLists(third)
          /\ links \in LinkLists({"A", "B", third}, MaxLinks + 1)
    /\ segments = None
    /\ heap = CallerObjects(nodes, links)
    /\ new_nodes = <<>>
    /\ new_links = <<>>
    /\ layer_map = <<>>
    /\ vals = <<>>
    /\ nodes_copy = 0
    /\ final_layer_map = <<>>
    /\ resplit_nodes = <<>>
    /\ resplit_links = <<>>
    /\ LayoutUnused

\* A direct call: split_long_links(nodes, links, segments).
SplitCall ==
    /\ pc = "input"
    /\ LET r == SplitObjects(heap, NodesArg, LinksArg, segments) IN
       /\ heap' = r.heap
       /\ new_nodes' = Deref(r.heap, r.new_nodes)
       /\ new_links' = Deref(r.heap, r.new_links)
    /\ pc' = "split"
    /\ UNCHANGED <<nodes, links, segments, layer_map, vals, nodes_copy,
                   final_layer_map, resplit_nodes, resplit_links>>
    /\ UNCHANGED layout_vars

\* sankey_pipeline.py:114, layer_map = infer_layers(nodes, links, segments);
\* infer_layers assigns to its locals only.
GraphInferLayers ==
    /\ pc = "input"
    /\ layer_map' = infer_layers(Deref(heap, NodesArg), Deref(heap, LinksArg), segments)
    /\ pc' = "inferred"
    /\ UNCHANGED <<nodes, links, segments, new_nodes, new_links, vals, heap,
                   nodes_copy, final_layer_map, resplit_nodes, resplit_links>>
    /\ UNCHANGED layout_vars

\* Line 115: nodes_copy = [dict(n) for n in nodes]
CopyNodes ==
    /\ pc = "inferred"
    /\ LET c == DictCopies(heap, NodesArg) IN
       /\ heap' = c.heap
       /\ nodes_copy' = c.addr
    /\ pc' = "copied"
    /\ UNCHANGED <<nodes, links, segments, new_nodes, new_links, layer_map, vals,
                   final_layer_map, resplit_nodes, resplit_links>>
    /\ UNCHANGED layout_vars

\* Lines 116-118: the inferred layer is written to each copy.
SetSegments ==
    /\ pc = "copied"
    /\ heap' = AssignSegments(heap, heap.lists[nodes_copy], layer_map, 1)
    /\ pc' = "assigned"
    /\ UNCHANGED <<nodes, links, segments, new_nodes, new_links, layer_map, vals,
                   nodes_copy, final_layer_map, resplit_nodes, resplit_links>>
    /\ UNCHANGED layout_vars

\* Line 119: new_nodes, new_links = split_long_links(nodes_copy, links, segments)
GraphSplit ==
    /\ pc = "assigned"
    /\ LET r == SplitObjects(heap, nodes_copy, LinksArg, segments) IN
       /\ heap' = r.heap
       /\ new_nodes' = Deref(r.heap, r.new_nodes)
       /\ new_links' = Deref(r.heap, r.new_links)
    /\ pc' = "graph_split"
    /\ UNCHANGED <<nodes, links, segments, layer_map, vals, nodes_copy,
                   final_layer_map, resplit_nodes, resplit_links>>
    /\ UNCHANGED layout_vars

\* Lines 120-125: final_layer_map is filled and the three results are returned.
ReturnGraph ==
    /\ pc = "graph_split"
    /\ final_layer_map' = FinalLayerMap(new_nodes)
    /\ pc' = "built"
    /\ UNCHANGED <<nodes, links, segments, new_nodes, new_links, layer_map, vals,
                   heap, nodes_copy, resplit_nodes, resplit_links>>
    /\ UNCHANGED layout_vars

GraphNext ==
    \/ SplitCall
    \/ GraphInferLayers
    \/ CopyNodes
    \/ SetSegments
    \/ GraphSplit
    \/ ReturnGraph

GraphSpec == GraphInit /\ [][GraphNext]_vars

-----------------------------------------------------------------------------
(* Vocabulary of the properties of split_long_links. The expected shape of the  *)
(* output is computed here from the input alone, link by link.                  *)

SplitDone == pc = "split"

InputIds == {nodes[i]["id"] : i \in DOMAIN nodes}

\* The layer of each input node that has one, as split_long_links resolves it.
InputLayer == SplitLayerMap(nodes, segments)

\* Both endpoints of the link are nodes of the input.
EndpointsExist(l) == l["source"] \in InputIds /\ l["target"] \in InputIds

\* In the operators below lm is InputLayer, evaluated once by the property that
\* uses them.

\* Both endpoints of the link are nodes of the input with a known layer.
Resolved(lm, l) == l["source"] \in DOMAIN lm /\ l["target"] \in DOMAIN lm

\* Target layer minus source layer, for a resolved link.
Span(lm, l) == lm[l["target"]] - lm[l["source"]]

\* A left-to-right link over more than one layer.
IsLong(lm, l) == Resolved(lm, l) /\ Span(lm, l) > 1

\* The number of output links and of synthetic nodes expected for one link.
ExpectedLinks(lm, l) == IF IsLong(lm, l) THEN Span(lm, l) ELSE 1

ExpectedDummies(lm, l) == IF IsLong(lm, l) THEN Span(lm, l) - 1 ELSE 0

\* The number of output links (synthetic nodes) expected for links[1..i-1].
RECURSIVE LinksBefore(_, _)
LinksBefore(lm, i) ==
    IF i <= 1 THEN 0 ELSE LinksBefore(lm, i - 1) + ExpectedLinks(lm, links[i - 1])

RECURSIVE DummiesBefore(_, _)
DummiesBefore(lm, i) ==
    IF i <= 1 THEN 0 ELSE DummiesBefore(lm, i - 1) + ExpectedDummies(lm, links[i - 1])

\* The output holds what is expected for all the links together, and nothing else.
Accounted(lm) ==
    /\ Len(new_links) = LinksBefore(lm, Len(links) + 1)
    /\ Len(new_nodes) = Len(nodes) + DummiesBefore(lm, Len(links) + 1)

\* The positions of the synthetic nodes in the output node list.
SyntheticPositions == (Len(nodes) + 1)..Len(new_nodes)

\* Link i of the input is in the output once, unchanged, at its place, and no
\* synthetic node was created for it.
PassedThrough(lm, i) ==
    /\ LinksBefore(lm, i) + 1 \in DOMAIN new_links
    /\ new_links[LinksBefore(lm, i) + 1] = links[i]
    /\ ExpectedLinks(lm, links[i]) = 1
    /\ \A p \in SyntheticPositions : new_nodes[p]["orig_link_index"] # i - 1

\* For a long link i: the j-th synthetic node created for it, and the j-th link of
\* its chain.
ChainNode(lm, i, j) == new_nodes[Len(nodes) + DummiesBefore(lm, i) + j]

ChainHop(lm, i, j) == new_links[LinksBefore(lm, i) + j]

AllNodesLayered(lm) == \A i \in DOMAIN nodes : nodes[i]["id"] \in DOMAIN lm

AllEndpointsExist == \A i \in DOMAIN links : EndpointsExist(links[i])

\* The layer of each output node, resolved from the output node list the way
\* split_long_links resolves layers.
OutputLayer == SplitLayerMap(new_nodes, segments)

-----------------------------------------------------------------------------
(* Properties of split_long_links (specification Spec). *)

\* C1 (as stated; violated): when all nodes have a resolved layer and all link
\* endpoints exist, every output link connects two nodes whose layers differ by 0 or 1.
C1_EveryOutputLinkSpansAtMostOne ==
    LET lm == InputLayer
        out == OutputLayer
    IN  (SplitDone /\ AllNodesLayered(lm) /\ AllEndpointsExist) =>
            \A p \in DOMAIN new_links :
                abs(out[new_links[p]["target"]] - out[new_links[p]["source"]]) <= 1

\* C1 (amended): when all nodes have a resolved layer and all link endpoints exist,
\* every output link is either an input link passed through unchanged, whose target
\* layer is at most one above its source layer (same layer, adjacent, or reversed by
\* any gap), or the j-th link of the chain built for a long link, which goes from the
\* chain's node at layer s + j - 1 to its node at layer s + j (s the source layer).
C1_OutputLinksAdjacentOrReversed ==
    LET lm == InputLayer IN
    (SplitDone /\ AllNodesLayered(lm) /\ AllEndpointsExist) =>
        /\ Accounted(lm)
        /\ \A i \in DOMAIN links :
            LET l == links[i]
                s == lm[l["source"]]
                k == Span(lm, l)
            IN  IF k > 1
                THEN \A j \in 1..k :
                        LET hop == ChainHop(lm, i, j) IN
                        /\ IF j = 1
                           THEN hop["source"] = l["source"]
                           ELSE /\ hop["source"] = ChainNode(lm, i, j - 1)["id"]
                                /\ ChainNode(lm, i, j - 1)["segment"] = PyInt(s + j - 1)
                        /\ IF j = k
                           THEN hop["target"] = l["target"]
                           ELSE /\ hop["target"] = ChainNode(lm, i, j)["id"]
                                /\ ChainNode(lm, i, j)["segment"] = PyInt(s + j)
                ELSE PassedThrough(lm, i)

\* C1 witness: a long link was split and a link reversed over several layers was kept.
C1_Witness ==
    LET lm == InputLayer IN
    /\ SplitDone /\ AllNodesLayered(lm) /\ AllEndpointsExist
    /\ \E i \in DOMAIN links : IsLong(lm, links[i])
    /\ \E i \in DOMAIN links : Span(lm, links[i]) < -1
    /\ Len(new_nodes) > Len(nodes)

TwoParallelLongLinks ==
    LET lm == InputLayer IN
    /\ Len(links) = 2
    /\ links[1]["source"] = links[2]["source"]
    /\ links[1]["target"] = links[2]["target"]
    /\ Resolved(lm, links[1])
    /\ lm[links[1]["source"]] = 0
    /\ lm[links[1]["target"]] = 3

\* The nodes of the output flagged dummy.
FlaggedDummies == {p \in DOMAIN new_nodes : Get(new_nodes[p], "dummy", FALSE) = TRUE}

IsShort(lm, l) == Resolved(lm, l) /\ abs(Span(lm, l)) <= 1

\* C4: a link whose endpoints have known layers differing by at most 1 is output
\* unchanged and no synthetic node is created for it; if all links are such, the
\* output node list and link list equal the input's.
C4_ShortLinksUnchanged ==
    LET lm == InputLayer IN
    SplitDone =>
        /\ Accounted(lm)
        /\ \A i \in DOMAIN links : IsShort(lm, links[i]) => PassedThrough(lm, i)
        /\ (\A i \in DOMAIN links : IsShort(lm, links[i])) =>
              new_nodes = nodes /\ new_links = links

\* C4 witness: two short links, one of them with metadata, were passed through.
C4_Witness ==
    LET lm == InputLayer IN
    /\ SplitDone
    /\ Len(links) = 2
    /\ \A i \in DOMAIN links : IsShort(lm, links[i])
    /\ Span(lm, links[1]) = 1 /\ Span(lm, links[2]) = 0
    /\ new_links = links

\* C5: the ids of the synthetic nodes created in one call are pairwise distinct.
C5_SyntheticIdsDistinct ==
    SplitDone =>
        \A p, q \in SyntheticPositions :
            p # q => new_nodes[p]["id"] # new_nodes[q]["id"]

\* C5 witness: two links with the same source and target were both split.
C5_Witness ==
    LET lm == InputLayer IN
    /\ SplitDone
    /\ \E i, j \in DOMAIN links :
          /\ i # j
          /\ links[i]["source"] = links[j]["source"]
          /\ links[i]["target"] = links[j]["target"]
          /\ IsLong(lm, links[i])
    /\ Cardinality(SyntheticPositions) >= 2

\* The ids of the input node list are unique.
InputIdsUnique ==
    \A i, j \in DOMAIN nodes : i # j => nodes[i]["id"] # nodes[j]["id"]

\* C6 (violated by the code): no synthetic id equals the id of an input node, so the
\* output node list has no two nodes of the same id when the input ids are unique.
C6_SyntheticIdsAvoidInputIds ==
    (SplitDone /\ InputIdsUnique) =>
        /\ \A p \in SyntheticPositions : new_nodes[p]["id"] \notin InputIds
        /\ \A p, q \in DOMAIN new_nodes :
              p # q => new_nodes[p]["id"] # new_nodes[q]["id"]

\* C7: a link with an endpoint that is not a node of the input, or that has no
\* resolvable layer, is output once, unchanged, and no synthetic node is created for
\* it.
C7_UnresolvedLinksUnchanged ==
    LET lm == InputLayer IN
    SplitDone =>
        /\ Accounted(lm)
        /\ \A i \in DOMAIN links : ~Resolved(lm, links[i]) => PassedThrough(lm, i)

\* C7 witness: a link with a missing endpoint and a link whose endpoints exist but
\* one has no resolvable layer were both passed through.
C7_Witness ==
    LET lm == InputLayer IN
    /\ SplitDone
    /\ \E i \in DOMAIN links : ~EndpointsExist(links[i])
    /\ \E i \in DOMAIN links : EndpointsExist(links[i]) /\ ~Resolved(lm, links[i])
    /\ new_links = links

\* C8: a reversed link (target layer below source layer), whatever the gap, is output
\* once with its original source, target, value and metadata, and no synthetic node
\* is created for it.
C8_ReversedLinksUnchanged ==
    LET lm == InputLayer IN
    SplitDone =>
        /\ Accounted(lm)
        /\ \A i \in DOMAIN links :
              (Resolved(lm, links[i]) /\ Span(lm, links[i]) < 0) => PassedThrough(lm, i)

\* C8 witness: a link reversed over three layers was passed through, next to a long
\* link that was split.
C8_Witness ==
    LET lm == InputLayer IN
    /\ SplitDone
    /\ \E i \in DOMAIN links : Resolved(lm, links[i]) /\ Span(lm, links[i]) = -3
    /\ \E i \in DOMAIN links : IsLong(lm, links[i])

-----------------------------------------------------------------------------
(* Properties of the repeated split (specification ResplitSpec). *)

\* The second call of split_long_links has returned.
ResplitDone == pc = "resplit"

\* C23 (violated by the code): split_long_links applied to its own output returns
\* that output: the same node list and the same link list, and no further
\* synthetic node.
C23_SplitOfSplitIsSplit ==
    ResplitDone =>
        /\ resplit_nodes = new_nodes
        /\ resplit_links = new_links

\* The id of a synthetic node of the first call is the id of an input node.
SyntheticIdCollides ==
    \E p \in SyntheticPositions : new_nodes[p]["id"] \in InputIds

\* The second call returns the output of the first whenever no synthetic id of
\* the first call is the id of an input node.
SplitOfSplitIsSplitWithoutCollision ==
    (ResplitDone /\ ~SyntheticIdCollides) =>
        /\ resplit_nodes = new_nodes
        /\ resplit_links = new_links

\* The first call split a long link without a collision and the second call
\* returned the same lists.
SplitOfSplitWithoutCollisionReached ==
    /\ ResplitDone
    /\ ~SyntheticIdCollides
    /\ Len(new_nodes) > Len(nodes)
    /\ resplit_nodes = new_nodes

-----------------------------------------------------------------------------
(* Properties of infer_layers (specification LayerSpec). *)

LayersDone == pc = "layers"

\* C9 (violated by the code): for every non-empty node list, the minimum of the
\* returned layer map is 0, also when every node declares an explicit layer.
C9_MinimumLayerIsZero ==
    (LayersDone /\ nodes # <<>>) =>
        MinOf({layer_map[id] : id \in DOMAIN layer_map}) = 0

\* The layer each node id resolves to in the first pass, as PyInt, or None.
Resolved1 == FirstPass(nodes, segments)

\* The nodes that declare an explicit integer layer, and that layer.
DeclaresInt(id) == IsInt(Get(NodeMap(nodes)[id], "segment", None))

DeclaredInt(id) == NodeMap(nodes)[id]["segment"].int

\* There is a link from u to v between nodes of the node list.
Edge(u, v) ==
    /\ u \in InputIds /\ v \in InputIds
    /\ \E i \in DOMAIN links : links[i]["source"] = u /\ links[i]["target"] = v

\* The nodes reached from the set S by one or more links.
RECURSIVE ReachedFrom(_, _)
ReachedFrom(S, n) ==
    IF n = 0 THEN {}
    ELSE LET step == {v \in InputIds : \E u \in S : Edge(u, v)} IN
         step \cup ReachedFrom(step, n - 1)

Reaches(u, v) == v \in ReachedFrom({u}, Cardinality(InputIds))

\* The node lies on a cycle of the link graph over the nodes of the node list.
OnCycle(v) == Reaches(v, v)

\* The node lies on a cycle or behind one: its in-degree never reaches 0.
Stuck(v) == \E u \in InputIds : OnCycle(u) /\ (u = v \/ Reaches(u, v))

Acyclic == \A v \in InputIds : ~OnCycle(v)

\* The nodes that lie on a cycle or behind one.
\* The links between nodes of the node list, as pairs <<source, target>>.
EdgeSet ==
    LET ids == InputIds IN
    {e \in {<<links[i]["source"], links[i]["target"]>> : i \in DOMAIN links} :
        e[1] \in ids /\ e[2] \in ids}

\* The nodes reached from the set S by one to n edges of E.
RECURSIVE After(_, _, _)
After(E, S, n) ==
    IF n = 0 \/ S = {} THEN {}
    ELSE LET step == {e[2] : e \in {d \in E : d[1] \in S}} IN
         step \cup After(E, step, n - 1)

\* The nodes that lie on a cycle of E or behind one (the set of the v with Stuck(v)).
StuckSet(E) ==
    LET cyclic == {u \in {e[1] : e \in E} : u \in After(E, {u}, Cardinality(E))} IN
    cyclic \cup After(E, cyclic, Cardinality(E))

\* The 'segment' of each node id, None for a node without one.
DeclaredSegment ==
    LET nm == NodeMap(nodes) IN [id \in DOMAIN nm |-> Get(nm[id], "segment", None)]

\* No incoming link from a node of the node list.
NoIncoming(v) == \A u \in InputIds : ~Edge(u, v)

\* C15 (as stated; violated): any two nodes that declare explicit integer layers a
\* and b get layers that differ by exactly a - b.
C15_ExplicitLayersKept ==
    LayersDone =>
        \A x, y \in InputIds :
            (DeclaresInt(x) /\ DeclaresInt(y)) =>
                layer_map[x] - layer_map[y] = DeclaredInt(x) - DeclaredInt(y)

\* C15 (amended): when every node resolves to a layer, each node gets the layer it
\* declares. Otherwise two nodes that declare explicit integer layers a and b and
\* have no incoming link from a node of the node list get layers that differ by
\* exactly a - b; a declaring node with an incoming link is not placed lower than
\* that: against a declaring node y without incoming links its layer differs by at
\* least a - b, and it is above each of its predecessors that is not on or behind a
\* cycle.
C15_ExplicitLayersKeptWithoutIncomingLinks ==
    LayersDone =>
        LET resolved == Resolved1
            ids == DOMAIN resolved
            E == EdgeSet
            stuck == StuckSet(E)
            seg == DeclaredSegment
            declaring == {x \in ids : IsInt(seg[x])}
            entered == {e[2] : e \in E}
        IN  /\ (\A id \in ids : resolved[id] # None) =>
                  \A id \in ids : layer_map[id] = resolved[id].int
            /\ \A x \in declaring, y \in declaring \ entered :
                  /\ layer_map[x] - layer_map[y] >= seg[x].int - seg[y].int
                  /\ x \notin entered =>
                        layer_map[x] - layer_map[y] = seg[x].int - seg[y].int
            /\ (\E id \in ids : resolved[id] = None) =>
                  \A e \in E :
                      (e[2] \in declaring /\ e[1] \notin stuck) =>
                          layer_map[e[2]] > layer_map[e[1]]

\* C15 witness: two nodes without incoming links that declare the layers 3 and 1
\* both have a link to a node without a layer; that node was inferred above them and
\* the two kept their distance of 2 after the shift by 1.
C15_Witness ==
    /\ LayersDone
    /\ \E x, y, u \in InputIds :
          /\ DeclaresInt(x) /\ DeclaresInt(y) /\ NoIncoming(x) /\ NoIncoming(y)
          /\ DeclaredInt(x) = 3 /\ DeclaredInt(y) = 1
          /\ Resolved1[u] = None /\ Edge(x, u) /\ Edge(y, u)
          /\ layer_map[y] = 0 /\ layer_map[x] = 2 /\ layer_map[u] = 3

\* C16 (as stated; violated): when the link graph over the nodes contains a cycle,
\* infer_layers returns a layer for every node and every node on a cycle has layer 0.
C16_CycleNodesGetLayerZero ==
    (LayersDone /\ ~Acyclic) =>
        /\ DOMAIN layer_map = InputIds
        /\ \A v \in InputIds : OnCycle(v) => layer_map[v] = 0

\* The largest layer among the predecessors of v that are not on or behind a cycle,
\* stuck being the set of the nodes that are.
MaxFreePredLayer(v, E, stuck) ==
    MaxOfSet({layer_map[e[1]] : e \in {d \in E : d[2] = v /\ d[1] \notin stuck}})

\* C16 (amended): when the link graph over the nodes contains a cycle, infer_layers
\* returns a layer for every node. A node on a cycle that resolves to no layer has
\* layer 0 if all its predecessors are on or behind a cycle; if it has a predecessor
\* that is not, its layer is 1 + the largest layer of such predecessors.
C16_CycleNodesGetLayerZeroOrAbovePredecessor ==
    LayersDone =>
        LET E == EdgeSet
            stuck == StuckSet(E)
        IN  (stuck # {}) =>
                LET resolved == Resolved1 IN
                /\ DOMAIN layer_map = DOMAIN resolved
                /\ \A v \in stuck :
                      (v \in After(E, {v}, Cardinality(E)) /\ resolved[v] = None) =>
                          IF \A e \in E : e[2] = v => e[1] \in stuck
                          THEN layer_map[v] = 0
                          ELSE layer_map[v] = 1 + MaxFreePredLayer(v, E, stuck)

\* C16 witness: a node with a link to itself, which resolves to no layer, has a
\* predecessor outside the cycle and got that predecessor's layer + 1.
C16_Witness ==
    /\ LayersDone
    /\ \E w, u \in InputIds :
          /\ u # w /\ Edge(w, w) /\ Edge(u, w) /\ ~Stuck(u)
          /\ Resolved1[w] = None
          /\ layer_map[u] = 0
          /\ layer_map[w] = 1

\* No node has a 'segment'.
NoneDeclares == \A i \in DOMAIN nodes : "segment" \notin DOMAIN nodes[i]

\* The length of the longest path of links that ends in v, in an acyclic graph.
RECURSIVE LongestPath(_)
LongestPath(v) ==
    IF NoIncoming(v) THEN 0
    ELSE 1 + MaxOfSet({LongestPath(u) : u \in {w \in InputIds : Edge(w, v)}})

UsedLayers == {layer_map[id] : id \in DOMAIN layer_map}

-----------------------------------------------------------------------------
(* Properties of compute_node_values (specification ValueSpec). *)

ValuesDone == pc = "values"

\* The sum of the values of the links at the given positions of the link list.
RECURSIVE SumOfLinks(_)
SumOfLinks(S) ==
    IF S = {} THEN 0
    ELSE LET i == CHOOSE x \in S : TRUE IN
         Get(links[i], "value", 0) + SumOfLinks(S \ {i})

OutSum(id) == SumOfLinks({i \in DOMAIN links : links[i]["source"] = id})

InSum(id) == SumOfLinks({i \in DOMAIN links : links[i]["target"] = id})

MaxOf(S) == CHOOSE x \in S : \A y \in S : x >= y

\* The node's declared value, 0 if it declares none.
Declared(n) == Get(n, "value", 0)

\* No link of the input has the id as its source or its target.
Isolated(id) ==
    \A i \in DOMAIN links : links[i]["source"] # id /\ links[i]["target"] # id

\* Every node gets the maximum of its outgoing sum, its incoming sum and its declared
\* value (0 if none), and the map has exactly the input's ids.
EveryNodeGetsMaximum ==
    /\ DOMAIN vals = InputIds
    /\ \A i \in DOMAIN nodes :
          LET n == nodes[i] IN
          vals[n["id"]] = MaxOf({OutSum(n["id"]), InSum(n["id"]), Declared(n)})

\* C10 (as stated; violated): every node gets the maximum of its outgoing sum, its
\* incoming sum and its declared value (0 if none); in particular a node with no
\* incident links gets its declared value.
C10_IsolatedNodeGetsDeclaredValue ==
    ValuesDone =>
        /\ EveryNodeGetsMaximum
        /\ \A i \in DOMAIN nodes :
              Isolated(nodes[i]["id"]) => vals[nodes[i]["id"]] = Declared(nodes[i])

\* C10 (amended): every node gets the maximum of its outgoing sum, its incoming sum
\* and its declared value (0 if none); in particular a node with no incident links
\* gets its declared value when that is at least 0, and 0 when it is negative.
C10_NodeValueIsMaximum ==
    ValuesDone =>
        /\ EveryNodeGetsMaximum
        /\ \A i \in DOMAIN nodes :
              Isolated(nodes[i]["id"]) =>
                  vals[nodes[i]["id"]] =
                      IF Declared(nodes[i]) >= 0 THEN Declared(nodes[i]) ELSE 0

\* C10 witness: one node without links got its positive declared value, and another
\* node got the sum of two incoming links, larger than its outgoing sum and its
\* declared value.
C10_Witness ==
    /\ ValuesDone
    /\ \E i \in DOMAIN nodes :
          /\ Isolated(nodes[i]["id"])
          /\ Declared(nodes[i]) > 0
          /\ vals[nodes[i]["id"]] = Declared(nodes[i])
    /\ \E i \in DOMAIN nodes :
          /\ Cardinality({j \in DOMAIN links : links[j]["target"] = nodes[i]["id"]}) = 2
          /\ InSum(nodes[i]["id"]) > OutSum(nodes[i]["id"])
          /\ InSum(nodes[i]["id"]) > Declared(nodes[i])
          /\ vals[nodes[i]["id"]] = InSum(nodes[i]["id"])

-----------------------------------------------------------------------------
(* Properties of barycenter_ordering (specification OrderSpec). *)

\* barycenter_ordering has built 'order' (it is sweeping or has returned).
OrderBuilt == pc \in {"ordering", "ordered"}

\* The number of times x occurs in the list s.
Count(s, x) == Cardinality({i \in DOMAIN s : s[i] = x})

\* The list a holds the elements of the list b, each as often as b does.
IsPermutation(a, b) ==
    /\ Len(a) = Len(b)
    /\ \A i \in DOMAIN a : Count(a, a[i]) = Count(b, a[i])

\* The ids of the nodes of the i-th layer of the grouping, in the grouping's order.
LayerIds(i) == [j \in DOMAIN layers[i].val |-> layers[i].val[j]["id"]]

\* C11: at every point of barycenter_ordering, after any number of upward and downward
\* sweeps, and in its result, 'order' has the layer keys of the grouping and holds
\* for each layer a permutation of the ids of that layer's nodes.
C11_OrderIsPermutation ==
    OrderBuilt =>
        /\ Len(order) = Len(layers)
        /\ \A i \in DOMAIN order :
              /\ order[i].key = layers[i].key
              /\ IsPermutation(order[i].val, LayerIds(i))

\* C11 witness: barycenter_ordering returned after two iterations of an upward and a
\* downward sweep, with a layer of three nodes in another order than the grouping's.
C11_Witness ==
    /\ pc = "ordered"
    /\ iterations = 2
    /\ calls = 4
    /\ \E i \in DOMAIN order :
          /\ Len(order[i].val) = 3
          /\ order[i].val # LayerIds(i)
          /\ IsPermutation(order[i].val, LayerIds(i))

\* The neighbours of nid that a sweep looks at: its predecessors in an upward call,
\* its successors in a downward call.
SweepNeighbors(nid, upward) == IF upward THEN Preds(links, nid) ELSE Succs(links, nid)

\* The barycenter of nid in a sweep made from the ordering od: the mean of the
\* positions of those of its neighbours that od places, None if there is none.
Bary(od, nid, upward) == Weight(od, SweepNeighbors(nid, upward))

\* The position of nid in the list s.
PosIn(s, nid) == ListIndex(s, nid)

\* new is old, sorted as a sweep over the layer sorts it: the nodes with a barycenter
\* first, ascending, equal ones in their old order; then the others in their old
\* order.
SortedByBarycenter(od, old, new, upward) ==
    /\ IsPermutation(new, old)
    /\ \A p, q \in DOMAIN new :
          p < q =>
              LET bp == Bary(od, new[p], upward)
                  bq == Bary(od, new[q], upward)
              IN  /\ bp = None => bq = None
                  /\ (bp # None /\ bq # None) => FLe(bp, bq)
                  /\ (bp = bq) => PosIn(old, new[p]) < PosIn(old, new[q])

\* C20: a barycenter() call leaves the other layers alone and sorts the layer it is
\* made for: the nodes that have a barycenter come first, ascending by barycenter,
\* those of equal barycenter in their previous relative order; the nodes without one,
\* among them every node with no neighbour in the sweep direction, come after them
\* in their previous relative order.
C20_SweepSortsByBarycenter ==
    [][(SweepUpward \/ SweepDownward) =>
          LET li == NextSweep.li
              upward == NextSweep.upward
              old == ItemOf(order, li)
          IN  /\ Len(order') = Len(order)
              /\ \A i \in DOMAIN order :
                    /\ order'[i].key = order[i].key
                    /\ order[i].key # li => order'[i].val = order[i].val
              /\ SortedByBarycenter(order, old, ItemOf(order', li), upward)
              /\ \A j \in DOMAIN old :
                    SweepNeighbors(old[j], upward) = <<>> =>
                        Bary(order, old[j], upward) = None]_vars

\* C20 witness: the first upward sweep has reordered a layer of three nodes, two of
\* which have a barycenter and one of which has none.
C20_Witness ==
    /\ pc = "ordering"
    /\ calls = 1
    /\ LET before == InitialOrder(layers)
           li == Sweeps(before)[1].li
           old == ItemOf(before, li)
           new == ItemOf(order, li)
       IN  /\ Len(old) = 3
           /\ new # old
           /\ Cardinality({j \in DOMAIN old : Bary(before, old[j], TRUE) # None}) = 2
           /\ SortedByBarycenter(before, old, new, TRUE)

-----------------------------------------------------------------------------
(* Properties of compute_positions (specification PositionSpec). *)

\* compute_positions was called and has returned or raised.
PositionsCalled == pc # "input"

\* The layer of the grouping that holds the node id.
LayerOfId(id) == layers[CHOOSE i \in DOMAIN layers :
                           \E j \in DOMAIN layers[i].val : layers[i].val[j]["id"] = id]

\* Every node of the layer has value 0.
ZeroLayer(item) == \A j \in DOMAIN item.val : vals[item.val[j]["id"]] = 0

\* C14 (violated by the code): on an empty layer set, a single layer, or a layer in
\* which every node has value 0, compute_positions raises no division error and
\* returns a position and a size for every node, a node of value 0 having the
\* minimum node height.
C14_NoDivisionErrorOnDegenerateInput ==
    PositionsCalled =>
        /\ pc = "positions"
        /\ DOMAIN positions = InputIds
        /\ DOMAIN sizes = InputIds
        /\ \A id \in InputIds : vals[id] = 0 => sizes[id][2] = Float(min_node_h)

\* compute_positions has returned.
PositionsDone == pc = "positions"

\* The top edge and the bottom edge of the box of a node: its centre minus and plus
\* half its height.
BoxTop(id) == FSub(positions[id][2], FDiv(sizes[id][2], Float(2)))

BoxBottom(id) == FAdd(positions[id][2], FDiv(sizes[id][2], Float(2)))

\* The running top when the j-th id of the list is placed: 20, plus the height and
\* the padding of each box before it.
RECURSIVE RunningTop(_, _)
RunningTop(ids, j) ==
    IF j = 1 THEN Float(20)
    ELSE FAdd(FAdd(RunningTop(ids, j - 1), sizes[ids[j - 1]][2]), Float(node_padding))

\* C21: in the output of compute_positions the boxes of each layer follow the
\* layer's order (the ordering's list, or the grouping's when the ordering has no
\* entry for the layer) top to bottom: the first top edge is at 20, each next top
\* edge is the previous bottom edge plus node_padding, each centre is the running
\* top plus half the height, every height is at least min_node_h, and no two boxes
\* of a layer overlap.
C21_BoxesStackedInLayerOrder ==
    PositionsDone =>
        \A i \in DOMAIN layers :
            LET ids == OrderedIds(order, layers[i]) IN
            \A j \in DOMAIN ids :
                /\ FLe(Float(min_node_h), sizes[ids[j]][2])
                /\ positions[ids[j]][2]
                      = FAdd(RunningTop(ids, j), FDiv(sizes[ids[j]][2], Float(2)))
                /\ BoxTop(ids[j]) = IF j = 1 THEN Float(20)
                                    ELSE FAdd(BoxBottom(ids[j - 1]), Float(node_padding))
                /\ \A k \in 1..(j - 1) : FLt(BoxBottom(ids[k]), BoxTop(ids[j]))

\* C21 witness: a layer of three nodes was placed in the reverse of the grouping's
\* order; its first box has the minimum height (value 0 beside positive values) and
\* its last box is taller.
C21_Witness ==
    /\ PositionsDone
    /\ \E i \in DOMAIN layers :
          LET ids == OrderedIds(order, layers[i]) IN
          /\ Len(ids) = 3
          /\ ids = Reverse(InitialOrder(layers)[i].val)
          /\ vals[ids[1]] = 0
          /\ sizes[ids[1]][2] = Float(min_node_h)
          /\ FLt(Float(min_node_h), sizes[ids[3]][2])
          /\ BoxTop(ids[1]) = Float(20)
          /\ BoxTop(ids[2]) = Float(20 + min_node_h + node_padding)

-----------------------------------------------------------------------------
(* Properties of _compute_link_thicknesses, _stack_links_by_node and render_svg *)
(* (specification RenderSpec).                                                  *)

\* _compute_link_thicknesses has returned.
ThicknessDone == pc \in {"thickness", "stacked"}

\* The links that leave (side "source") or enter (side "target") the node.
LinksAt(side, nid) == {i \in DOMAIN links : links[i][side] = nid}

\* The sum of the computed thicknesses of a set of links.
RECURSIVE SumThickness(_)
SumThickness(S) ==
    IF S = {} THEN Float(0)
    ELSE LET i == CHOOSE x \in S : TRUE IN
         FAdd(thickness_map[i], SumThickness(S \ {i}))

\* The value of link i times its scale, that is its thickness before the
\* minimum-thickness floor; so and si are the scales of the two sides.
Unfloored(so, si, i) ==
    FMul(Float(Get(links[i], "value", 0)),
         LinkScale(links[i], so, si, DefaultScale(links, sizes, factor)))

\* No link's thickness is raised by the minimum-thickness floor.
FloorNotBinding(so, si) ==
    \A i \in DOMAIN links : FLe(Float(min_thickness), Unfloored(so, si, i))

TargetScaleAtMostSource(so, si, i) ==
    \/ links[i]["target"] \notin DOMAIN si
    \/ /\ links[i]["source"] \in DOMAIN so
       /\ FLe(si[links[i]["target"]], so[links[i]["source"]])

StackDone == pc = "stacked"

\* The nodes whose links are stacked: those with a position and a size.
Placed == DOMAIN positions \cap DOMAIN sizes

\* The top and the bottom of link i on the given side ("s" or "t").
Top(side, i) == link_pos_map[i][side \o "_top"]

Bot(side, i) == link_pos_map[i][side \o "_bot"]

\* The intervals of the links that nid has on one side are stacked in link order:
\* each is as high as the link is thick, each starts where the previous one ends, and
\* no two overlap.
StackedContiguously(side, key, nid) ==
    LET idxs == SideList(links, key, nid) IN
    /\ \A k \in DOMAIN idxs :
          /\ idxs[k] \in DOMAIN link_pos_map
          /\ FSub(Bot(side, idxs[k]), Top(side, idxs[k])) = thickness_map[idxs[k]]
          /\ link_pos_map[idxs[k]]["thickness"] = thickness_map[idxs[k]]
          /\ k > 1 => Top(side, idxs[k]) = Bot(side, idxs[k - 1])
    /\ \A k, m \in DOMAIN idxs : k < m => FLe(Bot(side, idxs[k]), Top(side, idxs[m]))

\* C13: for each node with a position and a size, the source-side intervals
\* [s_top, s_bot] of its outgoing links are stacked contiguously in link order, each
\* as high as the link's thickness, and do not overlap pairwise; the same holds for
\* the target-side intervals [t_top, t_bot] of its incoming links.
C13_LinksStackedContiguously ==
    StackDone =>
        \A nid \in Placed :
            /\ StackedContiguously("s", "source", nid)
            /\ StackedContiguously("t", "target", nid)

\* C13 witness: two links were stacked on the source side of one node and on the
\* target side of another, the stacks centred in the node boxes.
C13_Witness ==
    /\ StackDone
    /\ center_stacks
    /\ \E a, b \in Placed :
          /\ a # b
          /\ Len(SideList(links, "source", a)) = 2
          /\ Len(SideList(links, "target", b)) = 2
          /\ Top("s", 2) = Bot("s", 1)
          /\ Top("t", 2) = Bot("t", 1)
          /\ FLt(FSub(positions[a][2], FDiv(sizes[a][2], Float(2))), Top("s", 1))

\* render_svg has returned.
RenderDone == pc = "rendered"

\* Link i names an id that is no node of the node list.
Dangling(i) == ~EndpointsExist(links[i])

\* C19 (violated by the code): every link with an endpoint that is no node is drawn,
\* as the fallback stroked curve and not as a filled ribbon.
C19_DanglingLinkDrawnAsStroke ==
    RenderDone =>
        \A i \in DOMAIN links :
            Dangling(i) =>
                /\ \E p \in DOMAIN svg.paths :
                      svg.paths[p].link = i - 1 /\ svg.paths[p].kind = "stroke"
                /\ \A p \in DOMAIN svg.paths :
                      svg.paths[p].link = i - 1 => svg.paths[p].kind # "ribbon"

\* The paths drawn for link i.
PathsOf(i) == {p \in DOMAIN svg.paths : svg.paths[p].link = i - 1}

\* C19 (amended): render_svg draws nothing for a link with an endpoint that is no
\* node (it has no position), and raises no error; every other link is drawn once,
\* as the fallback stroked curve when one of its endpoints has a position but no
\* size, so that the link has no stacked offsets on that side, and as a filled
\* ribbon otherwise.
C19_DanglingLinkOmitted ==
    RenderDone =>
        /\ DOMAIN positions = InputIds
        /\ \A i \in DOMAIN links :
              IF Dangling(i) THEN PathsOf(i) = {}
              ELSE /\ Cardinality(PathsOf(i)) = 1
                   /\ \A p \in PathsOf(i) :
                         svg.paths[p].kind =
                             IF {links[i]["source"], links[i]["target"]} \subseteq DOMAIN sizes
                             THEN "ribbon" ELSE "stroke"

\* C19 witness: of two links, the one with an endpoint that is no node was left out
\* and the other, whose node has no size, was drawn as the stroked curve.
C19_Witness ==
    /\ RenderDone
    /\ Len(links) = 2
    /\ \E i \in DOMAIN links : Dangling(i) /\ PathsOf(i) = {}
    /\ Len(svg.paths) = 1
    /\ svg.paths[1].kind = "stroke"

-----------------------------------------------------------------------------
(* Properties of build_internal_graph and of split_long_links on objects *)
(* (specification GraphSpec).                                            *)

\* The node at position p of the output is flagged as synthetic.
IsSynthetic(p) == Get(new_nodes[p], "dummy", FALSE) = TRUE

\* The caller's two lists hold the objects they held at the call, and every one of
\* these dicts has the contents it had.
CallerObjectsKept ==
    /\ heap.lists[NodesArg] = CallerObjects(nodes, links).lists[NodesArg]
    /\ heap.lists[LinksArg] = CallerObjects(nodes, links).lists[LinksArg]
    /\ Deref(heap, NodesArg) = nodes
    /\ Deref(heap, LinksArg) = links

\* The input node with its 'segment' set to the inferred layer.
WithLayer(n) == Put(n, "segment", PyInt(layer_map[n["id"]]))

\* C22: split_long_links and build_internal_graph do not modify their inputs: at
\* every statement and at the return the caller's node list and link list hold the
\* same records with the same contents. No input node is dropped: the node list
\* returned is the input nodes in their order (as given for split_long_links; for
\* build_internal_graph as copies whose 'segment' is the inferred layer), followed
\* by the synthetic nodes.
C22_InputsNotModified ==
    /\ CallerObjectsKept
    /\ pc \in {"split", "graph_split", "built"} =>
          /\ Len(new_nodes) >= Len(nodes)
          /\ \A p \in SyntheticPositions : IsSynthetic(p)
    /\ pc = "split" => SubSeq(new_nodes, 1, Len(nodes)) = nodes
    /\ pc \in {"graph_split", "built"} =>
          \A i \in DOMAIN nodes : new_nodes[i] = WithLayer(nodes[i])

\* C22 witness: build_internal_graph has returned; it wrote a layer to the copy of
\* a node that has no 'segment' and appended a synthetic node, and the caller's
\* node still has no 'segment'.
C22_Witness ==
    /\ pc = "built"
    /\ Len(new_nodes) > Len(nodes)
    /\ \E i \in DOMAIN nodes :
          /\ "segment" \notin DOMAIN nodes[i]
          /\ "segment" \in DOMAIN new_nodes[i]
          /\ "segment" \notin DOMAIN heap.dicts[heap.lists[NodesArg][i]]

\* build_internal_graph has returned.
GraphBuilt == pc = "built"

\* The link list is acyclic over the nodes, no node declares a layer and both
\* endpoints of every link are nodes.
PlainAcyclicInput ==
    /\ NoneDeclares
    /\ \A i \in DOMAIN links : EndpointsExist(links[i])
    /\ Acyclic

\* Every output link goes from a node at some layer i to a node at layer i + 1 of
\* the final layer map, and every synthetic node has a layer in that map.
LinksJoinNextLayers ==
    /\ \A i \in DOMAIN new_links :
          /\ new_links[i]["source"] \in DOMAIN final_layer_map
          /\ new_links[i]["target"] \in DOMAIN final_layer_map
          /\ final_layer_map[new_links[i]["target"]]
                = final_layer_map[new_links[i]["source"]] + 1
    /\ \A p \in SyntheticPositions : new_nodes[p]["id"] \in DOMAIN final_layer_map

\* C24 (violated by the code): for an acyclic input in which no node declares a
\* layer and every link endpoint exists, after build_internal_graph every output
\* link goes from layer i to layer i + 1 of the final layer map and every synthetic
\* node has a layer in it.
C24_OutputLinksJoinNextLayers ==
    (GraphBuilt /\ PlainAcyclicInput) => LinksJoinNextLayers

\* The same, for the calls in which no synthetic id is the id of an input node.
OutputLinksJoinNextLayersWithoutCollision ==
    (GraphBuilt /\ PlainAcyclicInput /\ ~SyntheticIdCollides) => LinksJoinNextLayers

\* Such a call has split a link over two layers.
OutputLinksWithoutCollisionReached ==
    /\ GraphBuilt
    /\ PlainAcyclicInput
    /\ ~SyntheticIdCollides
    /\ Len(new_nodes) > Len(nodes)
    /\ LinksJoinNextLayers

=============================================================================
